---- MODULE Spec2Model ----
(***************************************************************************)
(* A model of the humanfriendly package: the tokenizer of text.py and the  *)
(* unit-table formatters and parsers of __init__.py.                       *)
(*                                                                         *)
(* Text is a sequence of one-character strings.  A Python number is a      *)
(* record [k, n, s, d, t]: k is "int" or "float", n and d are naturals     *)
(* written in decimal digits and the value is n / (10^s * d).  A str value *)
(* is [k |-> "str", t |-> text].  Python's binary floating point is        *)
(* modelled as exact rational arithmetic.                                  *)
(***************************************************************************)
EXTENDS Integers, Sequences, FiniteSets, TLC

VARIABLES
  disk_size_units,    \* module global of __init__.py
  length_size_units,  \* module global of __init__.py
  time_units,         \* module global of __init__.py
  call,               \* the call under way: [op, arg, keep_width]
  pc,                 \* "start" before the call, "done" once it has ended
  ret,                \* what the call returned or raised
  clock,              \* time.time(), in tenths of a second
  timer,              \* the Timer object: its attributes
  log,                \* the calls made on the object: [op, at], at the clock's time
  spinner,            \* the Spinner object: its attributes
  stream,             \* what was written to the Spinner's stream, in order
  shutdown_event,     \* AutomaticSpinner.shutdown_event: whether it is set
  subprocess          \* AutomaticSpinner.subprocess: where it is, and its loops

vars ==
  <<disk_size_units, length_size_units, time_units, call, pc, ret,
    clock, timer, log, spinner, stream, shutdown_event, subprocess>>

\* the objects and the clock, which the formatters and parsers do not use
objects == <<clock, timer, log, spinner, stream, shutdown_event, subprocess>>

(***************************************************************************)
(* Arbitrary-precision naturals, as Python's int: sequences of decimal     *)
(* digits, most significant first.  The operations are functions, whose    *)
(* arguments are values, as the operands of a Python operator are.         *)
(***************************************************************************)
Digits == Seq(0..9)

Max(a, b) == IF a >= b THEN a ELSE b

Least(S) == CHOOSE i \in S : \A j \in S : i <= j

Zeros(n) == [i \in 1..n |-> 0]

PadTo(d, n) == Zeros(n - Len(d)) \o d

BigNorm ==
  [d \in Digits |->
     LET nonzero == {i \in 1..Len(d) : d[i] # 0}
     IN  IF nonzero = {} THEN <<0>> ELSE SubSeq(d, Least(nonzero), Len(d))]

\* The order of two naturals: -1, 0 or 1.
BigCmp ==
  [a \in Digits, b \in Digits |->
     LET n == Max(Len(a), Len(b))
         x == PadTo(a, n)
         y == PadTo(b, n)
         diff == {i \in 1..n : x[i] # y[i]}
     IN  IF diff = {} THEN 0
         ELSE IF x[Least(diff)] < y[Least(diff)] THEN -1 ELSE 1]

\* The carry into digit i comes from the nearest lower digit whose sum is not 9.
BigAdd ==
  [a \in Digits, b \in Digits |->
     LET n == Max(Len(a), Len(b))
         x == PadTo(a, n)
         y == PadTo(b, n)
         carry(i) ==
           LET lower == {j \in (i + 1)..n : x[j] + y[j] # 9}
           IN  IF lower = {} THEN 0
               ELSE IF x[Least(lower)] + y[Least(lower)] >= 10 THEN 1 ELSE 0
     IN  BigNorm[<<carry(0)>> \o [i \in 1..n |-> (x[i] + y[i] + carry(i)) % 10]]]

\* a - b for a >= b; the borrow from digit i comes from the nearest lower digit
\* where the two differ.
BigSub ==
  [a \in Digits, b \in Digits |->
     LET n == Max(Len(a), Len(b))
         x == PadTo(a, n)
         y == PadTo(b, n)
         borrow(i) ==
           LET lower == {j \in (i + 1)..n : x[j] # y[j]}
           IN  IF lower = {} THEN 0
               ELSE IF x[Least(lower)] < y[Least(lower)] THEN 1 ELSE 0
     IN  BigNorm[[i \in 1..n |-> (x[i] - y[i] - borrow(i) + 10) % 10]]]

\* k times a, by doubling
BigTimes[a \in Digits, k \in 1..9] ==
  IF k = 1 THEN BigNorm[a]
  ELSE IF k % 2 = 0
  THEN LET h == BigTimes[a, k \div 2] IN BigAdd[h, h]
  ELSE BigAdd[BigTimes[a, k - 1], a]

\* <<a, 2a, ..., 9a>>
BigMultiples == [a \in Digits |-> <<>> \o [k \in 1..9 |-> BigTimes[a, k]]]

\* multiples times the number written by the first j digits of b
BigMulPrefix[multiples \in Seq(Digits), b \in Digits, j \in Nat] ==
  IF j = 0 THEN <<0>>
  ELSE BigAdd[Append(BigMulPrefix[multiples, b, j - 1], 0),
              IF b[j] = 0 THEN <<0>> ELSE multiples[b[j]]]

BigMul ==
  [a \in Digits, b \in Digits |->
     IF Len(a) >= Len(b)
     THEN BigMulPrefix[BigMultiples[a], b, Len(b)]
     ELSE BigMulPrefix[BigMultiples[b], a, Len(a)]]

\* Long division of the first i digits of a, the first k of them being less
\* than the divisor: <<quotient digits, remainder>>.
BigDivPrefix[a \in Digits, multiples \in Seq(Digits), k \in Nat, i \in Nat] ==
  IF i <= k THEN << <<>>, BigNorm[SubSeq(a, 1, i)] >>
  ELSE LET p == BigDivPrefix[a, multiples, k, i - 1]
           r == BigNorm[Append(p[2], a[i])]
           q == Cardinality({m \in 1..9 : BigCmp[multiples[m], r] <= 0})
       IN  <<Append(p[1], q), IF q = 0 THEN r ELSE BigSub[r, multiples[q]]>>

\* <<a div b, a mod b>> for b > 0 without leading zeros
BigDivMod ==
  [a \in Digits, b \in Digits |->
     LET d == BigDivPrefix[a, BigMultiples[b], Len(b) - 1, Len(a)]
     IN  <<BigNorm[d[1]], d[2]>>]

BigIsZero(a) == \A i \in 1..Len(a) : a[i] = 0

BigIsOdd(a) == a[Len(a)] % 2 = 1

IntPow[b \in Digits, e \in Nat] ==
  IF e = 0 THEN <<1>> ELSE BigMul[IntPow[b, e - 1], b]

(***************************************************************************)
(* Python values.  A number is the exact rational n / (10^s * d); d is 1   *)
(* but for the result of a division.                                       *)
(***************************************************************************)
\* n and s with the zeros that end the fraction removed
Canon(n, s) ==
  LET significant == {i \in 1..Len(n) : n[i] # 0}
      last == CHOOSE i \in significant : \A j \in significant : i >= j
      cut == IF Len(n) - last < s THEN Len(n) - last ELSE s
  IN  IF significant = {} THEN << <<0>>, 0 >>
      ELSE <<BigNorm[SubSeq(n, 1, Len(n) - cut)], s - cut>>

PyInt(n) == [k |-> "int", n |-> BigNorm[n], s |-> 0, d |-> <<1>>, t |-> <<>>]

PyFloat(n, s) ==
  LET c == Canon(n, s)
  IN  [k |-> "float", n |-> c[1], s |-> c[2], d |-> <<1>>, t |-> <<>>]

PyStr(text) == [k |-> "str", n |-> <<>>, s |-> 0, d |-> <<1>>, t |-> text]

\* True and False
PyBool(b) ==
  [k |-> "bool", n |-> IF b THEN <<1>> ELSE <<0>>, s |-> 0, d |-> <<1>>, t |-> <<>>]

\* a tuple of integers
PyTuple(items) ==
  [k |-> "tuple", n |-> <<>>, s |-> 0, d |-> <<1>>, t |-> <<>>, items |-> items]

PyNone == [k |-> "NoneType", n |-> <<>>, s |-> 0, d |-> <<1>>, t |-> <<>>]

IsNumber(v) == v.k \in {"int", "float"}

IsString(v) == v.k = "str"

\* The denominator 10^s * d of a number.
Denominator(v) == BigNorm[v.d \o Zeros(v.s)]

\* The order of two numbers: -1, 0 or 1.
NumCmp(a, b) ==
  IF a.s = 0 /\ b.s = 0 /\ a.d = <<1>> /\ b.d = <<1>>
  THEN BigCmp[a.n, b.n]
  ELSE BigCmp[BigMul[a.n, Denominator(b)], BigMul[b.n, Denominator(a)]]

NumEq(a, b) == IsNumber(a) /\ IsNumber(b) /\ NumCmp(a, b) = 0

\* a * b of two numbers that are no quotients: an int when both are, else a float
NumMul(a, b) ==
  IF a.k = "int" /\ b.k = "int" THEN PyInt(BigMul[a.n, b.n])
  ELSE PyFloat(BigMul[a.n, b.n], a.s + b.s)

\* a / b: a float, kept as the exact quotient
NumDiv(a, b) ==
  [k |-> "float", n |-> BigMul[a.n, Denominator(b)], s |-> 0,
   d |-> BigMul[b.n, Denominator(a)], t |-> <<>>]

\* int(a / b)
NumIntDiv(a, b) ==
  PyInt(BigDivMod[BigMul[a.n, Denominator(b)], BigMul[b.n, Denominator(a)]][1])

\* a % b of two numbers that are no quotients: an int when both are, else a float
NumMod(a, b) ==
  LET r == BigDivMod[a.n \o Zeros(b.s), BigNorm[b.n \o Zeros(a.s)]][2]
  IN  IF a.k = "int" /\ b.k = "int" THEN PyInt(r) ELSE PyFloat(r, a.s + b.s)

\* float(v) of a number
ToFloat(v) == [v EXCEPT !.k = "float"]

\* int(v) of a number: the whole part
ToInt(v) ==
  IF v.d = <<1>>
  THEN PyInt(IF Len(v.n) > v.s THEN SubSeq(v.n, 1, Len(v.n) - v.s) ELSE <<0>>)
  ELSE PyInt(BigDivMod[v.n, Denominator(v)][1])

(***************************************************************************)
(* Text: characters, str methods and the conversions between text and      *)
(* numbers.                                                                *)
(***************************************************************************)
DigitChars == <<"0", "1", "2", "3", "4", "5", "6", "7", "8", "9">>

UpperChars ==
  <<"A", "B", "C", "D", "E", "F", "G", "H", "I", "J", "K", "L", "M",
    "N", "O", "P", "Q", "R", "S", "T", "U", "V", "W", "X", "Y", "Z">>

LowerChars ==
  <<"a", "b", "c", "d", "e", "f", "g", "h", "i", "j", "k", "l", "m",
    "n", "o", "p", "q", "r", "s", "t", "u", "v", "w", "x", "y", "z">>

IsDigitChar(c) == \E i \in 1..10 : DigitChars[i] = c

IsSpaceChar(c) == c = " "

DigitOf(c) == (CHOOSE i \in 1..10 : DigitChars[i] = c) - 1

CharOf(d) == DigitChars[d + 1]

\* the text of a digit sequence, and the digits of a text of digits
DigitText(d) == [i \in 1..Len(d) |-> CharOf(d[i])]

TextDigits(text) == [i \in 1..Len(text) |-> DigitOf(text[i])]

RECURSIVE NatDigits(_)
NatDigits(m) == IF m < 10 THEN <<m>> ELSE Append(NatDigits(m \div 10), m % 10)

\* str.lower()
lower(text) ==
  [i \in 1..Len(text) |->
     IF \E j \in 1..26 : UpperChars[j] = text[i]
     THEN LowerChars[CHOOSE j \in 1..26 : UpperChars[j] = text[i]]
     ELSE text[i]]

\* str.upper()
upper(text) ==
  [i \in 1..Len(text) |->
     IF \E j \in 1..26 : LowerChars[j] = text[i]
     THEN UpperChars[CHOOSE j \in 1..26 : LowerChars[j] = text[i]]
     ELSE text[i]]

\* str.startswith()
startswith(text, prefix) ==
  Len(prefix) <= Len(text) /\ SubSeq(text, 1, Len(prefix)) = prefix

\* A strip() that removes nothing: the variant without which a token keeps the
\* whitespace around it.
strip_nothing(text) == text

\* str.strip()
strip(text) ==
  LET keep == {i \in 1..Len(text) : ~IsSpaceChar(text[i])}
  IN  IF keep = {} THEN <<>>
      ELSE SubSeq(text, CHOOSE i \in keep : \A j \in keep : i <= j,
                        CHOOSE i \in keep : \A j \in keep : i >= j)

\* str.isdigit()
isdigit(text) == Len(text) > 0 /\ \A i \in 1..Len(text) : IsDigitChar(text[i])

\* The last index of the run of digits that starts at index i.
DigitRunEnd(text, i) ==
  CHOOSE j \in i..Len(text) :
    /\ \A m \in i..j : IsDigitChar(text[m])
    /\ (j = Len(text) \/ ~IsDigitChar(text[j + 1]))

\* The match of \d+ alone: the variant whose pattern has no optional fraction.
NumberMatchEndNoFraction(text, i) == DigitRunEnd(text, i)

\* The last index of the match of \d+(?:\.\d+)? that starts at index i.
NumberMatchEnd(text, i) ==
  LET e == DigitRunEnd(text, i)
  IN  IF e + 2 <= Len(text) /\ text[e + 1] = "." /\ IsDigitChar(text[e + 2])
      THEN DigitRunEnd(text, e + 2)
      ELSE e

\* re.split(r'(\d+(?:\.\d+)?)', text): the text between the matches and, the
\* pattern being one capturing group, the matches themselves, alternating.
RECURSIVE re_split(_)
re_split(text) ==
  LET starts == {i \in 1..Len(text) : IsDigitChar(text[i])}
  IN  IF starts = {} THEN <<text>>
      ELSE LET i == CHOOSE i \in starts : \A j \in starts : i <= j
               e == NumberMatchEnd(text, i)
           IN  <<SubSeq(text, 1, i - 1), SubSeq(text, i, e)>>
                 \o re_split(SubSeq(text, e + 1, Len(text)))

\* re.match(r'\d+\.\d+', token): a match at the start of the token
re_match_float(token) ==
  /\ Len(token) > 0
  /\ IsDigitChar(token[1])
  /\ LET e == DigitRunEnd(token, 1)
     IN  e + 2 <= Len(token) /\ token[e + 1] = "." /\ IsDigitChar(token[e + 2])

\* int(token) of a text of digits
int_of_text(token) == PyInt(TextDigits(token))

\* float(token) of a text "digits" or "digits.digits"
float_of_text(token) ==
  LET dots == {i \in 1..Len(token) : token[i] = "."}
  IN  IF dots = {} THEN PyFloat(TextDigits(token), 0)
      ELSE LET p == CHOOSE i \in dots : TRUE
           IN  PyFloat(TextDigits(SubSeq(token, 1, p - 1)
                                  \o SubSeq(token, p + 1, Len(token))),
                       Len(token) - p)

StripTrailingZeros(d) ==
  LET significant == {i \in 1..Len(d) : d[i] # 0}
  IN  IF significant = {} THEN <<>>
      ELSE SubSeq(d, 1, CHOOSE i \in significant : \A j \in significant : i >= j)

\* str(v) of a float: repr's shortest form, with an exponent when the decimal
\* exponent is below -4 or at least 16
float_str(v) ==
  IF BigIsZero(v.n) THEN <<"0", ".", "0">>
  ELSE
    LET sig == StripTrailingZeros(v.n)
        decpt == Len(v.n) - v.s
        exp == decpt - 1
        absexp == IF exp < 0 THEN 0 - exp ELSE exp
        expdigits == IF absexp < 10 THEN <<0, absexp>> ELSE NatDigits(absexp)
    IN  IF exp < -4 \/ exp >= 16
        THEN <<CharOf(sig[1])>>
               \o (IF Len(sig) > 1 THEN <<".">> \o DigitText(Tail(sig)) ELSE <<>>)
               \o <<"e", IF exp < 0 THEN "-" ELSE "+">>
               \o DigitText(expdigits)
        ELSE IF decpt <= 0
             THEN <<"0", ".">> \o DigitText(Zeros(0 - decpt) \o v.n)
             ELSE DigitText(SubSeq(v.n, 1, decpt)) \o <<".">>
                    \o (IF v.s = 0 THEN <<"0">>
                        ELSE DigitText(SubSeq(v.n, decpt + 1, Len(v.n))))

\* '%s' % v
format_s(v) ==
  IF v.k = "str" THEN v.t
  ELSE IF v.k = "int" THEN DigitText(v.n)
  ELSE float_str(v)

\* float(v) of any value
float_of(v) == IF v.k = "str" THEN float_of_text(v.t) ELSE ToFloat(v)

(***************************************************************************)
(* humanfriendly/text.py                                                   *)
(***************************************************************************)
RECURSIVE tokenize_loop(_)
tokenize_loop(fragments) ==
  IF fragments = <<>> THEN <<>>
  ELSE LET token == strip(Head(fragments))
           rest == tokenize_loop(Tail(fragments))
       IN  IF re_match_float(token) THEN <<float_of_text(token)>> \o rest
           ELSE IF isdigit(token) THEN <<int_of_text(token)>> \o rest
           ELSE IF token # <<>> THEN <<PyStr(token)>> \o rest
           ELSE rest

tokenize(text) == tokenize_loop(re_split(text))

\* The variant that takes the singular only for a count of exactly one.
pluralize_exactly_one(count, singular, plural) ==
  LET plural_form == IF plural = <<>> THEN singular \o <<"s">> ELSE plural
      one == NumEq(float_of(count), PyInt(<<1>>))
  IN  format_s(count) \o <<" ">> \o (IF one THEN singular ELSE plural_form)

\* The variant that always appends "s" to the singular.
pluralize_always_s(count, singular, plural) ==
  LET one == NumEq(ToInt(float_of(count)), PyInt(<<1>>))
  IN  format_s(count) \o <<" ">> \o (IF one THEN singular ELSE singular \o <<"s">>)

\* plural = <<>> stands for None ("not plural" is also true of '')
pluralize(count, singular, plural) ==
  LET plural_form == IF plural = <<>> THEN singular \o <<"s">> ELSE plural
      one == NumEq(ToInt(float_of(count)), PyInt(<<1>>))
  IN  format_s(count) \o <<" ">> \o (IF one THEN singular ELSE plural_form)

RECURSIVE join(_, _)
join(sep, items) ==
  IF items = <<>> THEN <<>>
  ELSE IF Len(items) = 1 THEN items[1]
  ELSE items[1] \o sep \o join(sep, Tail(items))

\* The variant that joins every item with ', '.
concatenate_commas(items) == join(<<",", " ">>, items)

concatenate(items) ==
  IF Len(items) > 1
  THEN join(<<",", " ">>, SubSeq(items, 1, Len(items) - 1))
         \o <<" ", "a", "n", "d", " ">> \o items[Len(items)]
  ELSE IF items # <<>> THEN items[1]
  ELSE <<>>

(***************************************************************************)
(* Arithmetic of humanfriendly/__init__.py on Python numbers.              *)
(***************************************************************************)
\* The quotient d[1] of a division by den that left the remainder d[2], rounded
\* to the nearest whole number, a remainder of one half to the even one.
RoundHalfEven ==
  [d \in Seq(Digits), den \in Digits |->
     LET c == BigCmp[BigAdd[d[2], d[2]], den]
     IN  IF c > 0 \/ (c = 0 /\ BigIsOdd(d[1])) THEN BigAdd[d[1], <<1>>] ELSE d[1]]

\* The text of a number of hundredths.
HundredthsText ==
  [h \in Digits |->
     LET p == PadTo(h, 3)
     IN  DigitText(SubSeq(p, 1, Len(p) - 2)) \o <<".">>
           \o DigitText(SubSeq(p, Len(p) - 1, Len(p)))]

\* The variant that cuts the value off after two decimals instead of rounding.
format_2f_floor(v) == HundredthsText[BigDivMod[v.n \o <<0, 0>>, Denominator(v)][1]]

\* '%.2f' % v
format_2f(v) ==
  HundredthsText[RoundHalfEven[BigDivMod[v.n \o <<0, 0>>, Denominator(v)],
                               Denominator(v)]]

\* re.sub('0+$', '', text)
sub_trailing_zeros[text \in Seq(STRING)] ==
  IF Len(text) > 0 /\ text[Len(text)] = "0"
  THEN sub_trailing_zeros[SubSeq(text, 1, Len(text) - 1)]
  ELSE text

\* re.sub('\.$', '', text)
sub_trailing_dot ==
  [text \in Seq(STRING) |->
     IF Len(text) > 0 /\ text[Len(text)] = "."
     THEN SubSeq(text, 1, Len(text) - 1)
     ELSE text]

(***************************************************************************)
(* The unit tables, as the module creates them.                            *)
(***************************************************************************)
disk_size_units_initial ==
  << [prefix |-> <<"b">>, divider |-> PyInt(<<1>>),
      singular |-> <<"b", "y", "t", "e">>, plural |-> <<"b", "y", "t", "e", "s">>],
     [prefix |-> <<"k">>, divider |-> PyInt(IntPow[<<1, 0, 2, 4>>, 1]),
      singular |-> <<"K", "B">>, plural |-> <<"K", "B">>],
     [prefix |-> <<"m">>, divider |-> PyInt(IntPow[<<1, 0, 2, 4>>, 2]),
      singular |-> <<"M", "B">>, plural |-> <<"M", "B">>],
     [prefix |-> <<"g">>, divider |-> PyInt(IntPow[<<1, 0, 2, 4>>, 3]),
      singular |-> <<"G", "B">>, plural |-> <<"G", "B">>],
     [prefix |-> <<"t">>, divider |-> PyInt(IntPow[<<1, 0, 2, 4>>, 4]),
      singular |-> <<"T", "B">>, plural |-> <<"T", "B">>],
     [prefix |-> <<"p">>, divider |-> PyInt(IntPow[<<1, 0, 2, 4>>, 5]),
      singular |-> <<"P", "B">>, plural |-> <<"P", "B">>] >>

length_size_units_initial ==
  << [prefix |-> <<"n", "m">>, divider |-> PyFloat(<<1>>, 9),
      singular |-> <<"n", "m">>, plural |-> <<"n", "m">>],
     [prefix |-> <<"m", "m">>, divider |-> PyFloat(<<1>>, 3),
      singular |-> <<"m", "m">>, plural |-> <<"m", "m">>],
     [prefix |-> <<"c", "m">>, divider |-> PyFloat(<<1>>, 2),
      singular |-> <<"c", "m">>, plural |-> <<"c", "m">>],
     [prefix |-> <<"m">>, divider |-> PyInt(<<1>>),
      singular |-> <<"m", "e", "t", "r", "e">>,
      plural |-> <<"m", "e", "t", "r", "e", "s">>],
     [prefix |-> <<"k", "m">>, divider |-> PyInt(<<1, 0, 0, 0>>),
      singular |-> <<"k", "m">>, plural |-> <<"k", "m">>] >>

time_units_initial ==
  << [divider |-> PyInt(<<1>>),
      singular |-> <<"s", "e", "c", "o", "n", "d">>,
      plural |-> <<"s", "e", "c", "o", "n", "d", "s">>],
     [divider |-> PyInt(NatDigits(60)),
      singular |-> <<"m", "i", "n", "u", "t", "e">>,
      plural |-> <<"m", "i", "n", "u", "t", "e", "s">>],
     [divider |-> PyInt(NatDigits(60 * 60)),
      singular |-> <<"h", "o", "u", "r">>,
      plural |-> <<"h", "o", "u", "r", "s">>],
     [divider |-> PyInt(NatDigits(60 * 60 * 24)),
      singular |-> <<"d", "a", "y">>,
      plural |-> <<"d", "a", "y", "s">>],
     [divider |-> PyInt(NatDigits(60 * 60 * 24 * 7)),
      singular |-> <<"w", "e", "e", "k">>,
      plural |-> <<"w", "e", "e", "k", "s">>],
     [divider |-> PyInt(NatDigits(60 * 60 * 24 * 7 * 52)),
      singular |-> <<"y", "e", "a", "r">>,
      plural |-> <<"y", "e", "a", "r", "s">>] >>

(***************************************************************************)
(* humanfriendly/__init__.py: formatting.                                  *)
(***************************************************************************)
round_number(count, keep_width) ==
  IF ~keep_width
  THEN sub_trailing_dot[sub_trailing_zeros[format_2f(float_of(count))]]
  ELSE format_2f(float_of(count))

\* The variant that loops over units rather than reversed(units).
forward_scan(units, i, number) ==
  LET reached == {j \in 1..i : NumCmp(number, units[j].divider) >= 0}
  IN  IF reached = {} THEN 0 ELSE Least(reached)

\* The index of the first unit of reversed(units) at or after index i, counted
\* from the end, whose divider the number reaches; 0 when the loop ends.
RECURSIVE reversed_scan(_, _, _)
reversed_scan(units, i, number) ==
  IF i = 0 THEN 0
  ELSE IF NumCmp(number, units[i].divider) >= 0 THEN i
  ELSE reversed_scan(units, i - 1, number)

format_size(num_bytes, keep_width) ==
  LET i == reversed_scan(disk_size_units, Len(disk_size_units), num_bytes)
  IN  IF i # 0
      THEN LET unit == disk_size_units[i]
               number == round_number(NumDiv(ToFloat(num_bytes), unit.divider),
                                      keep_width)
           IN  pluralize(PyStr(number), unit.singular, unit.plural)
      ELSE pluralize(num_bytes, <<"b", "y", "t", "e">>, <<>>)

format_length(num_metres, keep_width) ==
  LET i == reversed_scan(length_size_units, Len(length_size_units), num_metres)
  IN  IF i # 0
      THEN LET unit == length_size_units[i]
               number == round_number(NumDiv(ToFloat(num_metres), unit.divider),
                                      keep_width)
           IN  pluralize(PyStr(number), unit.singular, unit.plural)
      ELSE pluralize(num_metres, <<"m", "e", "t", "r", "e">>, <<>>)

\* The variant that does not take the counted units off num_seconds.
RECURSIVE format_timespan_loop_whole(_, _)
format_timespan_loop_whole(i, num_seconds) ==
  IF i = 0 THEN <<>>
  ELSE LET unit == time_units[i]
       IN  IF NumCmp(num_seconds, unit.divider) >= 0
           THEN <<pluralize(NumIntDiv(num_seconds, unit.divider),
                            unit.singular, unit.plural)>>
                  \o format_timespan_loop_whole(i - 1, num_seconds)
           ELSE format_timespan_loop_whole(i - 1, num_seconds)

\* The slow path's loop over reversed(time_units), from index i down: the
\* pluralized counts of the units the remaining seconds reach.
RECURSIVE format_timespan_loop(_, _)
format_timespan_loop(i, num_seconds) ==
  IF i = 0 THEN <<>>
  ELSE LET unit == time_units[i]
       IN  IF NumCmp(num_seconds, unit.divider) >= 0
           THEN <<pluralize(NumIntDiv(num_seconds, unit.divider),
                            unit.singular, unit.plural)>>
                  \o format_timespan_loop(i - 1, NumMod(num_seconds, unit.divider))
           ELSE format_timespan_loop(i - 1, num_seconds)

format_timespan(num_seconds) ==
  IF NumCmp(num_seconds, PyInt(<<6, 0>>)) < 0
  THEN pluralize(PyStr(round_number(num_seconds, FALSE)),
                 <<"s", "e", "c", "o", "n", "d">>, <<>>)
  ELSE LET result == format_timespan_loop(Len(time_units), num_seconds)
       IN  IF Len(result) = 1 THEN result[1]
           ELSE concatenate(SubSeq(result, 1, IF Len(result) < 3 THEN Len(result) ELSE 3))

(***************************************************************************)
(* humanfriendly/__init__.py: parsing.                                     *)
(***************************************************************************)
\* The exceptions, with the two values their message is formatted from.
InvalidSize(size, tokens) ==
  [k |-> "InvalidSize", n |-> <<>>, s |-> 0, d |-> <<1>>, t |-> <<>>,
   input |-> size, tokens |-> tokens]

\* The variant of parse_length that raises the exception of parse_size.
InvalidLengthAsSize(length, tokens) == InvalidSize(length, tokens)

InvalidLength(length, tokens) ==
  [k |-> "InvalidLength", n |-> <<>>, s |-> 0, d |-> <<1>>, t |-> <<>>,
   input |-> length, tokens |-> tokens]

InvalidTimespan(timespan, tokens) ==
  [k |-> "InvalidTimespan", n |-> <<>>, s |-> 0, d |-> <<1>>, t |-> <<>>,
   input |-> timespan, tokens |-> tokens]

\* The variant that keeps looping after a match, and so ends on the last one.
prefix_scan_last(units, i, normalized_unit) ==
  LET matching == {j \in i..Len(units) : startswith(normalized_unit, units[j].prefix)}
  IN  IF matching = {} THEN 0 ELSE CHOOSE j \in matching : \A m \in matching : j >= m

\* The index of the first unit, from index i on, whose prefix starts the
\* normalized unit; 0 when the loop ends.
RECURSIVE prefix_scan(_, _, _)
prefix_scan(units, i, normalized_unit) ==
  IF i > Len(units) THEN 0
  ELSE IF startswith(normalized_unit, units[i].prefix) THEN i
  ELSE prefix_scan(units, i + 1, normalized_unit)

\* The same loop over time_units, on the first letter of the singular name.
RECURSIVE first_letter_scan(_, _, _)
first_letter_scan(units, i, normalized_unit) ==
  IF i > Len(units) THEN 0
  ELSE IF startswith(normalized_unit, <<units[i].singular[1]>>) THEN i
  ELSE first_letter_scan(units, i + 1, normalized_unit)

parse_size(size) ==
  LET tokens == tokenize(size)
  IN  IF tokens # <<>> /\ IsNumber(tokens[1])
      THEN IF Len(tokens) = 1 THEN ToInt(tokens[1])
           ELSE IF Len(tokens) = 2 /\ IsString(tokens[2])
           THEN LET i == prefix_scan(disk_size_units, 1, lower(tokens[2].t))
                IN  IF i # 0
                    THEN ToInt(NumMul(tokens[1], disk_size_units[i].divider))
                    ELSE InvalidSize(size, tokens)
           ELSE InvalidSize(size, tokens)
      ELSE InvalidSize(size, tokens)

parse_length(length) ==
  LET tokens == tokenize(length)
  IN  IF tokens # <<>> /\ IsNumber(tokens[1])
      THEN IF Len(tokens) = 1 THEN ToInt(tokens[1])
           ELSE IF Len(tokens) = 2 /\ IsString(tokens[2])
           THEN LET i == prefix_scan(length_size_units, 1, lower(tokens[2].t))
                IN  IF i # 0
                    THEN NumMul(tokens[1], length_size_units[i].divider)
                    ELSE InvalidLength(length, tokens)
           ELSE InvalidLength(length, tokens)
      ELSE InvalidLength(length, tokens)

parse_timespan(timespan) ==
  LET tokens == tokenize(timespan)
  IN  IF tokens # <<>> /\ IsNumber(tokens[1])
      THEN IF Len(tokens) = 1 THEN ToFloat(tokens[1])
           ELSE IF Len(tokens) = 2 /\ IsString(tokens[2])
           THEN LET i == first_letter_scan(time_units, 1, lower(tokens[2].t))
                IN  IF i # 0
                    THEN NumMul(ToFloat(tokens[1]), time_units[i].divider)
                    ELSE InvalidTimespan(timespan, tokens)
           ELSE InvalidTimespan(timespan, tokens)
      ELSE InvalidTimespan(timespan, tokens)

(***************************************************************************)
(* The calls that are checked.  A text is a concatenation of a few pieces  *)
(* or a number followed by a unit; a magnitude is a small mantissa scaled  *)
(* by a power of 1024 or of ten.                                           *)
(***************************************************************************)
MaxPieces == 3

MaxMantissa == 3

MaxPower == 5

MaxScale == 12

MaxZeros == 4

MaxItems == 3

MaxSequencePieces == 1

MaxDateParts == 4

MaxClock == 4

MaxTimerCalls == 5

MaxSpinnerCalls == 3

MaxLoops == 2

MaxPrompts == 2

CommonPieces ==
  { <<"0">>, <<"1">>, <<"1", ".", "5">>, <<".">>, <<" ">> }

TokenPieces ==
  CommonPieces \cup
    { <<"a">>, <<"B">>, <<"-">> }

SizePieces ==
  CommonPieces \cup
    { <<"k">>, <<"G", "B">> }

LengthPieces ==
  CommonPieces \cup
    { <<"m">>, <<"K", "m">> }

TimespanPieces ==
  CommonPieces \cup
    { <<"s">>, <<"H">> }

RECURSIVE Texts(_, _)
Texts(pieces, n) ==
  IF n = 0 THEN { <<>> }
  ELSE LET shorter == Texts(pieces, n - 1)
       IN  shorter \cup { x \o p : x \in shorter, p \in pieces }

NumberTexts ==
  { <<"0">>, <<"1">>, <<"2">>, <<"1", "0">>, <<"1", "0", "2", "3">>,
    <<"0", ".", "5">>, <<"1", ".", "5">>, <<"1", ".", "1", "2">>,
    <<"2", ".", "2", "5">>, <<"1", ".", "1", "2", "5">> }

SizeWords ==
  { <<"b">>, <<"B">>, <<"b", "y", "t", "e", "s">>, <<"B", "y", "t", "e">>,
    <<"k">>, <<"K", "B">>, <<"k", "b">>,
    <<"K", "i", "l", "o", "b", "y", "t", "e">>, <<"m">>, <<"M", "B">>,
    <<"m", "b">>, <<"g">>, <<"G", "B">>, <<"G", "b">>, <<"t">>, <<"T", "B">>,
    <<"t", "b">>, <<"p">>, <<"P", "B">>, <<"p", "B">>, <<"z">>, <<"x", "b">>,
    <<"e", "b">> }

LengthWords ==
  { <<"n", "m">>, <<"N", "M">>, <<"m", "m">>, <<"M", "M">>, <<"M", "m">>,
    <<"c", "m">>, <<"C", "M">>, <<"m">>, <<"M">>,
    <<"m", "e", "t", "r", "e">>, <<"m", "e", "t", "r", "e", "s">>,
    <<"k", "m">>, <<"K", "M">>, <<"K", "m">>, <<"k">>, <<"n">>, <<"c">>,
    <<"z">>, <<"m", "k">>, <<"x", "m">> }

TimespanWords ==
  { <<"s">>, <<"S">>, <<"s", "e", "c">>,
    <<"s", "e", "c", "o", "n", "d", "s">>, <<"m">>, <<"M">>,
    <<"m", "i", "n">>, <<"m", "s">>, <<"h">>, <<"H">>,
    <<"h", "o", "u", "r", "s">>, <<"d">>, <<"D">>, <<"d", "a", "y", "s">>,
    <<"w">>, <<"W">>, <<"w", "e", "e", "k", "s">>, <<"y">>, <<"Y">>,
    <<"y", "e", "a", "r", "s">>, <<"z">>, <<"x">> }

\* a number, a space or none, and a word
UnitTexts(words) ==
  { n \o sep \o w : n \in NumberTexts, sep \in { <<>>, <<" ">> }, w \in words }

SizeMantissas ==
  (0..MaxMantissa) \cup {1023, 1024, 1025, 1029, 1030, 1152, 1536, 2047, 2048}

SizeMagnitudes ==
  LET scaled == { PyInt(BigMul[NatDigits(m), IntPow[<<1, 0, 2, 4>>, e]]) :
                    m \in SizeMantissas, e \in 0..MaxPower }
  IN  scaled \cup { PyInt(BigSub[x.n, <<1>>]) : x \in { y \in scaled : ~BigIsZero(y.n) } }

LengthMantissas == (0..MaxMantissa) \cup {15, 99, 153, 999, 1999, 9999}

LengthMagnitudes ==
  { PyFloat(NatDigits(m), e) : m \in LengthMantissas, e \in 0..MaxScale }
    \cup { PyInt(NatDigits(m) \o Zeros(z)) : m \in LengthMantissas, z \in 0..MaxZeros }

TimespanFractions ==
  { <<0, 0>>, <<15, 1>>, <<99, 2>>, <<199, 2>>, <<125, 3>>, <<1999, 3>>,
    <<54321, 5>>, <<59999, 3>>, <<805, 1>> }

TimespanRests == {0, 20, 59, 7261}

TimespanMagnitudes ==
  { PyInt(NatDigits(m * d + r)) :
      m \in 0..MaxMantissa,
      d \in {1, 60, 60 * 60, 60 * 60 * 24, 60 * 60 * 24 * 7, 60 * 60 * 24 * 7 * 52},
      r \in TimespanRests }
    \cup { PyFloat(NatDigits(f[1]), f[2]) : f \in TimespanFractions }

(***************************************************************************)
(* coerce_boolean                                                          *)
(***************************************************************************)
\* bool(value) of a value that is no string
bool(value) ==
  IF value.k = "NoneType" THEN PyBool(FALSE) ELSE PyBool(~BigIsZero(value.n))

ValueError(value) ==
  [k |-> "ValueError", n |-> <<>>, s |-> 0, d |-> <<1>>, t |-> <<>>, input |-> value]

coerce_boolean(value) ==
  IF IsString(value)
  THEN LET normalized == lower(strip(value.t))
       IN  IF normalized \in { <<"1">>, <<"y", "e", "s">>, <<"t", "r", "u", "e">>,
                               <<"o", "n">> }
           THEN PyBool(TRUE)
           ELSE IF normalized \in { <<"0">>, <<"n", "o">>, <<"f", "a", "l", "s", "e">>,
                                    <<"o", "f", "f">>, <<>> }
           THEN PyBool(FALSE)
           ELSE ValueError(value)
  ELSE bool(value)

\* The values given to coerce_boolean: words in lower, upper and mixed case,
\* bare and between spaces, and values that are no strings.
BooleanWords ==
  { <<"1">>, <<"y", "e", "s">>, <<"t", "r", "u", "e">>, <<"o", "n">>,
    <<"0">>, <<"n", "o">>, <<"f", "a", "l", "s", "e">>, <<"o", "f", "f">>,
    <<>>, <<"2">>, <<"y">>, <<"t", "r", "u">>, <<"o", " ", "n">>,
    <<"m", "a", "y", "b", "e">>, <<"n", "o", "n", "e">>, <<"1", "0">> }

Capitalized(text) ==
  [i \in 1..Len(text) |-> IF i = 1 THEN upper(<<text[1]>>)[1] ELSE text[i]]

BooleanValues ==
  { PyStr(before \o w \o after) :
      before \in { <<>>, <<" ">> }, after \in { <<>>, <<" ">> },
      w \in UNION { {x, upper(x), Capitalized(x)} : x \in BooleanWords } }
    \cup { PyInt(NatDigits(m)) : m \in 0..MaxMantissa }
    \cup { PyFloat(<<0>>, 0), PyFloat(<<5>>, 1), PyBool(TRUE), PyBool(FALSE), PyNone }

(***************************************************************************)
(* parse_date.  Its integers are small: they are written as integers.      *)
(***************************************************************************)
\* text.split(sep) for a separator of one character: the pieces between the
\* separators, empty ones included
RECURSIVE split_on(_, _)
split_on(text, sep) ==
  LET at == {i \in 1..Len(text) : text[i] = sep}
  IN  IF at = {} THEN <<text>>
      ELSE <<SubSeq(text, 1, Least(at) - 1)>>
             \o split_on(SubSeq(text, Least(at) + 1, Len(text)), sep)

\* text.split(): the pieces between runs of whitespace, none of them empty
split_whitespace(text) == SelectSeq(split_on(text, " "), LAMBDA piece : piece # <<>>)

\* int(text) takes digits, with whitespace around them and a sign before them
unsigned(text) ==
  IF strip(text) # <<>> /\ strip(text)[1] \in {"-", "+"}
  THEN Tail(strip(text)) ELSE strip(text)

int_accepts(text) == isdigit(unsigned(text))

RECURSIVE digits_value(_)
digits_value(text) ==
  IF text = <<>> THEN 0
  ELSE 10 * digits_value(SubSeq(text, 1, Len(text) - 1)) + DigitOf(text[Len(text)])

int_value(text) ==
  IF strip(text)[1] = "-" THEN 0 - digits_value(unsigned(text))
  ELSE digits_value(unsigned(text))

\* list(map(int, parts)), when int() raises for none of them
map_int(parts) == [i \in 1..Len(parts) |-> int_value(parts[i])]

map_int_raises(parts) == \E i \in 1..Len(parts) : ~int_accepts(parts[i])

InvalidDate(datestring) ==
  [k |-> "InvalidDate", n |-> <<>>, s |-> 0, d |-> <<1>>, t |-> <<>>,
   input |-> datestring]

\* (parts + fill)[0:3]
first_three(parts, fill) == SubSeq(parts \o fill, 1, 3)

parse_date(datestring) ==
  LET tokens == split_whitespace(datestring)
  IN  IF Len(tokens) >= 2
      THEN IF map_int_raises(split_on(tokens[1], "-"))
                \/ map_int_raises(split_on(tokens[2], ":"))
           THEN InvalidDate(datestring)
           ELSE PyTuple(first_three(map_int(split_on(tokens[1], "-")), <<1, 1>>)
                          \o first_three(map_int(split_on(tokens[2], ":")), <<0, 0, 0>>))
      ELSE IF map_int_raises(split_on(datestring, "-"))
           THEN InvalidDate(datestring)
           ELSE PyTuple(first_three(map_int(split_on(datestring, "-")), <<1, 1>>)
                          \o <<0, 0, 0>>)

\* The strings given to parse_date: up to MaxDateParts parts of a date, with
\* and without as many parts of a time, each part a number, but for at most
\* one of the date and one of the time, which is letters; and strings with
\* spaces, signs, empty parts and a third token.
DateNumbers == << <<"2", "0", "1", "3">>, <<"0", "6">>, <<"1", "7">> >>

TimeNumbers == << <<"0", "2">>, <<"4", "7">>, <<"4", "2">> >>

PartAt(numbers, i) == IF i <= Len(numbers) THEN numbers[i] ELSE <<"9", "9">>

Joined(numbers, k, sep) ==
  { join(<<sep>>, [i \in 1..k |-> IF i = letters THEN <<"X", "Y">> ELSE PartAt(numbers, i)]) :
      letters \in 0..k }

DateParts == UNION { Joined(DateNumbers, k, "-") : k \in 1..MaxDateParts }

TimeParts == UNION { Joined(TimeNumbers, k, ":") : k \in 1..MaxDateParts }

DateTexts ==
  DateParts
    \cup { d \o <<" ">> \o t : d \in DateParts, t \in TimeParts }
    \cup { <<>>, <<" ">>, <<"2", "0", "1", "3", "-">>, <<"-", "0", "6">>,
           <<"2", "0", "1", "3", "-", "-", "1", "7">>,
           <<" ", "2", "0", "1", "3", "-", "0", "6", "-", "1", "7", " ">>,
           <<"2", "0", "1", "3", "-", "0", "6", "-", "1", "7", " ", " ",
             "0", "2", ":", "4", "7", ":", "4", "2">>,
           <<"2", "0", "1", "3", "-", "0", "6", "-", "1", "7", " ",
             "0", "2", ":", "4", "7", ":", "4", "2", " ", "X", "Y">>,
           <<"2", "0", "1", "3", "-", "0", "6", "-", "1", "7", " ",
             "0", "2", ":", "-", "4", "7">>,
           <<"2", "0", "1", "3", "-", "0", "6", "-", "1", "7", " ", ":">>,
           <<"2", "0", "1", "3", "-", "6", "-", "1", "7">>,
           <<"2", "0", "1", "3", "-", "0", "6", "-", "1", "7", " ",
             "2", ":", "4", "7", ":", "4", "2">> }

(***************************************************************************)
(* format_number.  A number that may be negative is [neg, abs]: abs is a   *)
(* number as above and neg says that the number is -abs.                   *)
(***************************************************************************)
Signed(neg, abs) == [neg |-> neg /\ ~BigIsZero(abs.n), abs |-> abs]

\* str(float(number))
str_float(number) ==
  (IF number.neg THEN <<"-">> ELSE <<>>) \o float_str(ToFloat(number.abs))

\* text.partition('.'): what is before the first '.', and what is after it
partition_dot(text) ==
  LET dots == {i \in 1..Len(text) : text[i] = "."}
  IN  IF dots = {} THEN <<text, <<>>>>
      ELSE <<SubSeq(text, 1, Least(dots) - 1), SubSeq(text, Least(dots) + 1, Len(text))>>

\* ''.join(reversed(text))
reversed_text(text) == [i \in 1..Len(text) |-> text[Len(text) + 1 - i]]

\* the loop that takes reversed_digits three characters at a time
RECURSIVE parts_of_three(_)
parts_of_three(reversed_digits) ==
  IF reversed_digits = <<>> THEN <<>>
  ELSE IF Len(reversed_digits) <= 3 THEN <<reversed_digits>>
  ELSE <<SubSeq(reversed_digits, 1, 3)>>
         \o parts_of_three(SubSeq(reversed_digits, 4, Len(reversed_digits)))

\* text.rstrip('0')
rstrip_zeros(text) ==
  LET kept == {i \in 1..Len(text) : text[i] # "0"}
  IN  IF kept = {} THEN <<>>
      ELSE SubSeq(text, 1, CHOOSE i \in kept : \A j \in kept : i >= j)

format_number(number, num_decimals) ==
  LET partition == partition_dot(str_float(number))
      formatted_number ==
        reversed_text(join(<<",">>, parts_of_three(reversed_text(partition[1]))))
      decimals_to_add ==
        rstrip_zeros(SubSeq(partition[2], 1,
                            IF Len(partition[2]) < num_decimals
                            THEN Len(partition[2]) ELSE num_decimals))
  IN  IF decimals_to_add # <<>>
      THEN formatted_number \o <<".">> \o decimals_to_add
      ELSE formatted_number

\* The numbers given to format_number: integers of one to seven digits and
\* powers of ten up to 10 ** (MaxZeros + 12), positive and negative, and the
\* floats of test_format_number.
NumberMagnitudes ==
  { PyInt(NatDigits(m)) :
      m \in (0..MaxMantissa) \cup {12, 123, 999, 1000, 1234, 12345, 123456, 1234567} }
    \cup { PyInt(<<1>> \o Zeros(z)) : z \in 0..(MaxZeros + 12) }
    \cup { PyFloat(<<1, 5>>, 1), PyFloat(<<1, 5, 6, 7, 8, 9>>, 5),
           PyFloat(<<1, 0, 0, 0, 1, 2>>, 2), PyFloat(<<1, 0, 0, 0, 0, 0, 0, 4, 2>>, 2) }

NumberCalls ==
  { [number |-> Signed(neg, abs), num_decimals |-> decimals] :
      neg \in BOOLEAN, abs \in NumberMagnitudes, decimals \in {0, 2, 3} }

\* pluralize(count, singular, plural): counts as int, float and str (the
\* formatters pass the text of round_number), words with and without a plural
PluralizeCounts ==
  { PyInt(NatDigits(m)) : m \in (0..MaxMantissa) \cup {11, 21, 100} }
    \cup { PyFloat(NatDigits(f[1]), f[2]) :
             f \in { <<0, 1>>, <<5, 1>>, <<99, 2>>, <<10, 1>>, <<15, 1>>,
                     <<199, 2>>, <<20, 1>>, <<25, 1>>, <<115, 1>> } }
    \cup { PyStr(t) : t \in { <<"1">>, <<"1", ".", "0", "0">>, <<"1", ".", "9", "9">>,
                              <<"2">>, <<"0", ".", "5">>, <<"1", "0">> } }

PluralizeWords ==
  { <<<<"w", "o", "r", "d">>, <<>>>>,
    <<<<"b", "o", "x">>, <<"b", "o", "x", "e", "s">>>>,
    <<<<"K", "B">>, <<"K", "B">>>>,
    <<<<"m", "e", "t", "r", "e">>, <<>>>> }

\* concatenate(items): lists of up to MaxItems words
ConcatenateWords ==
  { <<"o", "n", "e">>, <<"t", "w", "o">>, <<"t", "h", "r", "e", "e">> }

RECURSIVE ConcatenateItems(_)
ConcatenateItems(n) ==
  IF n = 0 THEN { <<>> }
  ELSE LET shorter == ConcatenateItems(n - 1)
       IN  shorter \cup { Append(x, w) : x \in shorter, w \in ConcatenateWords }

Call(op, arg, keep_width) == [op |-> op, arg |-> arg, keep_width |-> keep_width]

Calls ==
  { Call("tokenize", x, FALSE) : x \in Texts(TokenPieces, MaxPieces) }
    \cup { Call("parse_size", x, FALSE) :
             x \in Texts(SizePieces, MaxPieces) \cup UnitTexts(SizeWords) }
    \cup { Call("parse_length", x, FALSE) :
             x \in Texts(LengthPieces, MaxPieces) \cup UnitTexts(LengthWords) }
    \cup { Call("parse_timespan", x, FALSE) :
             x \in Texts(TimespanPieces, MaxPieces) \cup UnitTexts(TimespanWords) }
    \cup { Call("format_size", x, w) : x \in SizeMagnitudes, w \in BOOLEAN }
    \cup { Call("format_length", x, w) : x \in LengthMagnitudes, w \in BOOLEAN }
    \cup { Call("format_timespan", x, FALSE) : x \in TimespanMagnitudes }
    \cup { Call("pluralize", [count |-> c, singular |-> w[1], plural |-> w[2]], FALSE) :
             c \in PluralizeCounts, w \in PluralizeWords }
    \cup { Call("concatenate", [items |-> x], FALSE) : x \in ConcatenateItems(MaxItems) }
    \cup { Call("coerce_boolean", v, FALSE) : v \in BooleanValues }
    \cup { Call("parse_date", x, FALSE) : x \in DateTexts }
    \cup { Call("format_number", x, FALSE) : x \in NumberCalls }

(***************************************************************************)
(* The state machine: one call, drawn by Init, is made and ends.           *)
(***************************************************************************)
(***************************************************************************)
(* The clock and the objects.  time.time() is counted in tenths of a       *)
(* second, so that minimum_spinner_interval is a whole number; it is       *)
(* StartClock when the program starts.  Before an object is made its       *)
(* variable holds the attributes with made = FALSE.                        *)
(***************************************************************************)
StartClock == 100

NoTimer == [made |-> FALSE, resumable |-> FALSE, start_time |-> 0, total_time |-> 0]

NoSpinner ==
  [made |-> FALSE, label |-> <<>>, total |-> 0, counter |-> 0, last_update |-> 0,
   interactive |-> FALSE, timer |-> NoTimer, hide_cursor |-> FALSE]

NoSubprocess == [pc |-> "none", loops |-> 0]

NoObjects ==
  /\ clock = StartClock
  /\ timer = NoTimer
  /\ log = <<>>
  /\ spinner = NoSpinner
  /\ stream = <<>>
  /\ shutdown_event = FALSE
  /\ subprocess = NoSubprocess

Init ==
  /\ disk_size_units = disk_size_units_initial
  /\ length_size_units = length_size_units_initial
  /\ time_units = time_units_initial
  /\ call \in Calls
  /\ pc = "start"
  /\ ret = <<>>
  /\ NoObjects

\* The variant that reverses disk_size_units in place, where the code reads it
\* through reversed().
ReturnReversed(value) ==
  /\ pc' = "done"
  /\ ret' = value
  /\ disk_size_units' =
       [i \in 1..Len(disk_size_units) |-> disk_size_units[Len(disk_size_units) + 1 - i]]
  /\ UNCHANGED <<length_size_units, time_units, call>>
  /\ UNCHANGED objects

Return(value) ==
  /\ pc' = "done"
  /\ ret' = value
  /\ UNCHANGED <<disk_size_units, length_size_units, time_units, call>>
  /\ UNCHANGED objects

Tokenize == pc = "start" /\ call.op = "tokenize" /\ Return(tokenize(call.arg))

ParseSize == pc = "start" /\ call.op = "parse_size" /\ Return(parse_size(call.arg))

ParseLength ==
  pc = "start" /\ call.op = "parse_length" /\ Return(parse_length(call.arg))

ParseTimespan ==
  pc = "start" /\ call.op = "parse_timespan" /\ Return(parse_timespan(call.arg))

FormatSize ==
  /\ pc = "start"
  /\ call.op = "format_size"
  /\ Return(format_size(call.arg, call.keep_width))

FormatLength ==
  /\ pc = "start"
  /\ call.op = "format_length"
  /\ Return(format_length(call.arg, call.keep_width))

FormatTimespan ==
  pc = "start" /\ call.op = "format_timespan" /\ Return(format_timespan(call.arg))

Pluralize ==
  /\ pc = "start"
  /\ call.op = "pluralize"
  /\ Return(pluralize(call.arg.count, call.arg.singular, call.arg.plural))

Concatenate ==
  pc = "start" /\ call.op = "concatenate" /\ Return(concatenate(call.arg.items))

CoerceBoolean ==
  pc = "start" /\ call.op = "coerce_boolean" /\ Return(coerce_boolean(call.arg))

ParseDate == pc = "start" /\ call.op = "parse_date" /\ Return(parse_date(call.arg))

FormatNumber ==
  /\ pc = "start"
  /\ call.op = "format_number"
  /\ Return(format_number(call.arg.number, call.arg.num_decimals))

Next ==
  \/ Tokenize
  \/ ParseSize
  \/ ParseLength
  \/ ParseTimespan
  \/ FormatSize
  \/ FormatLength
  \/ FormatTimespan
  \/ Pluralize
  \/ Concatenate
  \/ CoerceBoolean
  \/ ParseDate
  \/ FormatNumber

Spec == Init /\ [][Next]_vars

(***************************************************************************)
(* Calls of the formatters and parsers one after another: once a call has  *)
(* ended, another is made in the state that it left.                       *)
(***************************************************************************)
SequenceMagnitudes ==
  { PyInt(NatDigits(m * d)) : m \in 0..MaxMantissa, d \in {1, 60, 1000, 1024, 3600} }

SequenceCalls ==
  { Call("parse_size", x, FALSE) : x \in Texts(SizePieces, MaxSequencePieces) }
    \cup { Call("parse_length", x, FALSE) : x \in Texts(LengthPieces, MaxSequencePieces) }
    \cup { Call("parse_timespan", x, FALSE) :
             x \in Texts(TimespanPieces, MaxSequencePieces) }
    \cup { Call("format_size", x, w) : x \in SequenceMagnitudes, w \in BOOLEAN }
    \cup { Call("format_length", x, w) : x \in SequenceMagnitudes, w \in BOOLEAN }
    \cup { Call("format_timespan", x, FALSE) : x \in SequenceMagnitudes }

SequenceInit ==
  /\ disk_size_units = disk_size_units_initial
  /\ length_size_units = length_size_units_initial
  /\ time_units = time_units_initial
  /\ call \in SequenceCalls
  /\ pc = "start"
  /\ ret = <<>>
  /\ NoObjects

CallAgain ==
  /\ pc = "done"
  /\ call' \in SequenceCalls
  /\ pc' = "start"
  /\ ret' = <<>>
  /\ UNCHANGED <<disk_size_units, length_size_units, time_units>>
  /\ UNCHANGED objects

SequenceNext ==
  \/ ParseSize
  \/ ParseLength
  \/ ParseTimespan
  \/ FormatSize
  \/ FormatLength
  \/ FormatTimespan
  \/ CallAgain

SequenceSpec == SequenceInit /\ [][SequenceNext]_vars

(***************************************************************************)
(* Timer.  The times are whole tenths of a second.  The start_time given   *)
(* to Timer() is None (NoStartTime) or a number.  pc is where the caller   *)
(* is: "start" before the Timer is made, then "outside" or "inside" a      *)
(* `with timer:` block.                                                    *)
(***************************************************************************)
NoStartTime == [given |-> FALSE, value |-> 0]

StartTime(value) == [given |-> TRUE, value |-> value]

\* `start_time or time.time()`: None and 0 are false
start_time_or_now(start_time, now) ==
  IF start_time.given /\ start_time.value # 0 THEN start_time.value ELSE now

Timer__init__(start_time, resumable, now) ==
  IF resumable
  THEN [made |-> TRUE, resumable |-> TRUE, start_time |-> 0, total_time |-> 0]
  ELSE [made |-> TRUE, resumable |-> FALSE,
        start_time |-> start_time_or_now(start_time, now), total_time |-> 0]

Timer__enter__(self, now) == [self EXCEPT !.start_time = now]

\* The variant that leaves start_time as it is.
Timer__exit__counting_on(self, now) ==
  [self EXCEPT !.total_time = self.total_time + (now - self.start_time)]

Timer__exit__(self, now) ==
  [self EXCEPT !.total_time = self.total_time + (now - self.start_time),
               !.start_time = 0]

elapsed_time(self, now) ==
  (IF self.resumable THEN self.total_time ELSE 0)
    + (IF self.start_time # 0 THEN now - self.start_time ELSE 0)

\* a number of tenths of a second as a Python float, in seconds
Seconds(tenths) == PyFloat(NatDigits(tenths), 1)

NotResumable ==
  ValueError(PyStr(<<"T", "i", "m", "e", "r", " ", "i", "s", " ", "n", "o", "t", " ",
                     "r", "e", "s", "u", "m", "a", "b", "l", "e", "!">>))

\* Timer(), Timer(resumable=True), and Timer(start_time) for the epoch, for 2.2
\* seconds and 1 second before the start of the program, and for its start.
TimerCalls ==
  { Call("Timer", [start_time |-> start_time, resumable |-> resumable], FALSE) :
      start_time \in {NoStartTime} \cup
                     { StartTime(value) :
                         value \in {0, StartClock - 22, StartClock - 10, StartClock} },
      resumable \in BOOLEAN }

TimerInit ==
  /\ disk_size_units = disk_size_units_initial
  /\ length_size_units = length_size_units_initial
  /\ time_units = time_units_initial
  /\ call \in TimerCalls
  /\ pc = "start"
  /\ ret = PyNone
  /\ NoObjects

TimerKeeps ==
  UNCHANGED <<disk_size_units, length_size_units, time_units, call, spinner, stream,
              shutdown_event, subprocess>>

\* time passes
Tick ==
  /\ clock < StartClock + MaxClock
  /\ clock' = clock + 1
  /\ UNCHANGED <<pc, ret, timer, log>>
  /\ TimerKeeps

TimerMake ==
  /\ pc = "start"
  /\ call.op = "Timer"
  /\ timer' = Timer__init__(call.arg.start_time, call.arg.resumable, clock)
  /\ log' = Append(log, [op |-> "__init__", at |-> clock])
  /\ pc' = "outside"
  /\ UNCHANGED <<ret, clock>>
  /\ TimerKeeps

\* `with timer:` is entered
TimerEnter ==
  /\ pc = "outside"
  /\ timer.made
  /\ Len(log) < MaxTimerCalls
  /\ IF ~timer.resumable
     THEN ret' = NotResumable /\ UNCHANGED <<pc, timer, log>>
     ELSE /\ timer' = Timer__enter__(timer, clock)
          /\ log' = Append(log, [op |-> "__enter__", at |-> clock])
          /\ pc' = "inside"
          /\ UNCHANGED ret
  /\ UNCHANGED clock
  /\ TimerKeeps

\* the block of `with timer:` is left
TimerExit ==
  /\ pc = "inside"
  /\ timer.made
  /\ IF ~timer.resumable
     THEN ret' = NotResumable /\ UNCHANGED <<pc, timer, log>>
     ELSE /\ timer' = Timer__exit__(timer, clock)
          /\ log' = Append(log, [op |-> "__exit__", at |-> clock])
          /\ pc' = "outside"
          /\ UNCHANGED ret
  /\ UNCHANGED clock
  /\ TimerKeeps

\* timer.elapsed_time is read
ElapsedTime ==
  /\ pc \in {"outside", "inside"}
  /\ timer.made
  /\ ret' = Seconds(elapsed_time(timer, clock))
  /\ UNCHANGED <<pc, clock, timer, log>>
  /\ TimerKeeps

TimerNext ==
  \/ Tick
  \/ TimerMake
  \/ TimerEnter
  \/ TimerExit
  \/ ElapsedTime

TimerSpec == TimerInit /\ [][TimerNext]_vars

(***************************************************************************)
(* Spinner.  The stream is the list of the texts written to it; the        *)
(* escape character is written "ESC".  An argument that may be None is     *)
(* [given, value].  pc is "outside" or "inside" the `with spinner:` block. *)
(***************************************************************************)
minimum_spinner_interval == 2

erase_line_code == <<"\r", "ESC", "[", "K">>

hide_cursor_code == <<"ESC", "[", "?", "2", "5", "l">>

show_cursor_code == <<"ESC", "[", "?", "2", "5", "h">>

states == << <<"-">>, <<"\\">>, <<"|">>, <<"/">> >>

\* stream.isatty(), of a terminal, of a file, and of a stream that has no
\* isatty(): the exception is caught and gives False
isatty(kind) == kind = "terminal"

Spinner__init__(label, total, kind, interactive, given_timer, hide_cursor) ==
  LET self ==
        [made |-> TRUE, label |-> label, total |-> total, counter |-> 0,
         last_update |-> 0,
         interactive |-> IF interactive.given THEN interactive.value ELSE isatty(kind),
         timer |-> given_timer, hide_cursor |-> hide_cursor]
  IN  [self |-> self,
       written |-> IF self.interactive /\ self.hide_cursor
                   THEN <<hide_cursor_code>> ELSE <<>>,
       raised |-> FALSE]

\* round(seconds) of Python 3, of a number of tenths of a second
round_tenths(tenths) ==
  LET whole == tenths \div 10
      rest == tenths % 10
  IN  IF rest < 5 THEN whole
      ELSE IF rest > 5 THEN whole + 1
      ELSE IF whole % 2 = 0 THEN whole ELSE whole + 1

\* timer.rounded
rounded(self, now) == format_timespan(PyInt(NatDigits(round_tenths(elapsed_time(self, now)))))

\* '%.2f' % (progress/(total/100.0))
percentage(progress, total) ==
  format_2f(NumDiv(PyInt(NatDigits(progress)),
                   NumDiv(PyInt(NatDigits(total)), PyFloat(<<1, 0, 0, 0>>, 1))))

\* What step() does when the spinner is interactive.
step_interactive(self, progress, label, now) ==
  IF now - self.last_update >= minimum_spinner_interval
  THEN LET updated == [self EXCEPT !.last_update = now]
           state == states[(self.counter % Len(states)) + 1]
           chosen == IF label # <<>> THEN label ELSE self.label
           shown ==
             IF self.total # 0 /\ progress # 0
             THEN chosen \o <<":", " ">> \o percentage(progress, self.total) \o <<"%">>
             ELSE IF self.timer.made /\ elapsed_time(self.timer, now) > 20
             THEN chosen \o <<" ", "(">> \o rounded(self.timer, now) \o <<")">>
             ELSE chosen
       IN  IF chosen = <<>>
           THEN [self |-> updated, written |-> <<>>, raised |-> TRUE]
           ELSE [self |-> [updated EXCEPT !.counter = self.counter + 1],
                 written |-> << erase_line_code \o <<" ">> \o state \o <<" ">>
                                  \o shown \o <<" ", ".", ".", "\r">> >>,
                 raised |-> FALSE]
  ELSE [self |-> self, written |-> <<>>, raised |-> FALSE]

\* The variant that does not look at self.interactive.
step_whatever(self, progress, label, now) == step_interactive(self, progress, label, now)

step(self, progress, label, now) ==
  IF self.interactive
  THEN step_interactive(self, progress, label, now)
  ELSE [self |-> self, written |-> <<>>, raised |-> FALSE]

\* The variant that erases the line and leaves the cursor as it is.
clear_erasing(self) ==
  IF self.interactive THEN <<erase_line_code>> ELSE <<>>

clear(self) ==
  IF self.interactive
  THEN (IF self.hide_cursor THEN <<show_cursor_code>> ELSE <<>>) \o <<erase_line_code>>
  ELSE <<>>

NoLabel ==
  [k |-> "Exception", n |-> <<>>, s |-> 0, d |-> <<1>>, t |-> <<>>,
   input |-> PyStr(<<"N", "o", " ", "l", "a", "b", "e", "l", " ", "s", "e", "t", " ",
                     "f", "o", "r", " ", "s", "p", "i", "n", "n", "e", "r", "!">>)]

Given(value) == [given |-> TRUE, value |-> value]

NotGiven == [given |-> FALSE, value |-> FALSE]

SpinnerLabels == { <<>>, <<"t", "e", "s", "t">> }

\* interactive and the stream: interactive given, or None with each stream
SpinnerStreams ==
  { [interactive |-> Given(TRUE), kind |-> "terminal"],
    [interactive |-> Given(FALSE), kind |-> "terminal"],
    [interactive |-> NotGiven, kind |-> "terminal"],
    [interactive |-> NotGiven, kind |-> "file"],
    [interactive |-> NotGiven, kind |-> "no isatty"] }

\* Spinner('test', total=4), Spinner('test', hide_cursor=False),
\* Spinner('test', timer=...) for a timer started 2.6 seconds before the start
\* of the program, and Spinner()
SpinnerArguments ==
  { [label |-> <<"t", "e", "s", "t">>, total |-> 4, timer |-> NoTimer,
     hide_cursor |-> TRUE],
    [label |-> <<"t", "e", "s", "t">>, total |-> 0, timer |-> NoTimer,
     hide_cursor |-> FALSE],
    [label |-> <<"t", "e", "s", "t">>, total |-> 0,
     timer |-> Timer__init__(StartTime(StartClock - 26), FALSE, StartClock),
     hide_cursor |-> TRUE],
    [label |-> <<>>, total |-> 0, timer |-> NoTimer, hide_cursor |-> TRUE] }

SpinnerCalls ==
  { Call("Spinner",
         [label |-> given.label, total |-> given.total, kind |-> to.kind,
          interactive |-> to.interactive, timer |-> given.timer,
          hide_cursor |-> given.hide_cursor], FALSE) :
      given \in SpinnerArguments, to \in SpinnerStreams }

SpinnerInit ==
  /\ disk_size_units = disk_size_units_initial
  /\ length_size_units = length_size_units_initial
  /\ time_units = time_units_initial
  /\ call \in SpinnerCalls
  /\ pc = "start"
  /\ ret = PyNone
  /\ NoObjects

SpinnerKeeps ==
  UNCHANGED <<disk_size_units, length_size_units, time_units, call, timer,
              shutdown_event, subprocess>>

\* What a call leaves: the attributes, what it wrote, and what it returned.
Leaves(result) ==
  /\ spinner' = result.self
  /\ stream' = stream \o result.written
  /\ ret' = IF result.raised THEN NoLabel ELSE PyNone

SpinnerMake ==
  /\ pc = "start"
  /\ call.op = "Spinner"
  /\ Leaves(Spinner__init__(call.arg.label, call.arg.total, call.arg.kind,
                            call.arg.interactive, call.arg.timer,
                            call.arg.hide_cursor))
  /\ pc' = "outside"
  /\ UNCHANGED <<clock, log>>
  /\ SpinnerKeeps

\* `with spinner:` is entered: __enter__ returns self
SpinnerEnter ==
  /\ pc = "outside"
  /\ spinner.made
  /\ pc' = "inside"
  /\ UNCHANGED <<ret, clock, log, spinner, stream>>
  /\ SpinnerKeeps

SpinnerStep ==
  /\ spinner.made
  /\ Len(log) < MaxSpinnerCalls
  /\ \E progress \in {0, 1}, label \in SpinnerLabels :
       Leaves(step(spinner, progress, label, clock))
  /\ log' = Append(log, [op |-> "step", at |-> clock])
  /\ UNCHANGED <<pc, clock>>
  /\ SpinnerKeeps

\* spinner.sleep(): time.sleep(minimum_spinner_interval)
SpinnerSleep ==
  /\ spinner.made
  /\ clock + minimum_spinner_interval <= StartClock + MaxClock
  /\ clock' = clock + minimum_spinner_interval
  /\ UNCHANGED <<pc, ret, log, spinner, stream>>
  /\ SpinnerKeeps

SpinnerClear ==
  /\ spinner.made
  /\ Len(log) < MaxSpinnerCalls
  /\ stream' = stream \o clear(spinner)
  /\ log' = Append(log, [op |-> "clear", at |-> clock])
  /\ UNCHANGED <<pc, ret, clock, spinner>>
  /\ SpinnerKeeps

\* the block of `with spinner:` is left: __exit__ calls clear()
SpinnerExit ==
  /\ pc = "inside"
  /\ spinner.made
  /\ Len(log) < MaxSpinnerCalls
  /\ stream' = stream \o clear(spinner)
  /\ log' = Append(log, [op |-> "__exit__", at |-> clock])
  /\ pc' = "outside"
  /\ UNCHANGED <<ret, clock, spinner>>
  /\ SpinnerKeeps

SpinnerNext ==
  \/ SpinnerMake
  \/ SpinnerEnter
  \/ SpinnerStep
  \/ SpinnerSleep
  \/ SpinnerClear
  \/ SpinnerExit

SpinnerSpec == SpinnerInit /\ [][SpinnerNext]_vars

(***************************************************************************)
(* AutomaticSpinner.  pc is where the main process is: "start", "made",    *)
(* "inside" the with-block, "joining" in __exit__ once the event is set,   *)
(* "returned" from __exit__.  subprocess.pc is where the subprocess is in  *)
(* automatic_spinner_target: "initial" before start(), "begin", "check"    *)
(* at the test of the loop, "step", "sleep", "leave" when the block of     *)
(* `with Spinner(...)` ends, "terminated".  The subprocess shows the       *)
(* spinner on sys.stderr, of which call.arg.kind says what it is.          *)
(***************************************************************************)
\* shutdown_event.is_set()
is_set(event) == event

\* The variant that does not wait for the subprocess.
subprocess_join_at_once(process) == TRUE

\* subprocess.join() returns once the subprocess has terminated
subprocess_join(process) == process.pc = "terminated"

AutomaticSpinnerCalls ==
  { Call("AutomaticSpinner", [label |-> label, show_time |-> show_time, kind |-> kind],
         FALSE) :
      label \in SpinnerLabels, show_time \in BOOLEAN,
      kind \in {"terminal", "file", "no isatty"} }

AutomaticSpinnerInit ==
  /\ disk_size_units = disk_size_units_initial
  /\ length_size_units = length_size_units_initial
  /\ time_units = time_units_initial
  /\ call \in AutomaticSpinnerCalls
  /\ pc = "start"
  /\ ret = PyNone
  /\ NoObjects

AutomaticSpinnerKeeps ==
  UNCHANGED <<disk_size_units, length_size_units, time_units, call, timer, log>>

\* AutomaticSpinner.__init__
AutomaticSpinnerMake ==
  /\ pc = "start"
  /\ call.op = "AutomaticSpinner"
  /\ shutdown_event' = FALSE
  /\ subprocess' = [pc |-> "initial", loops |-> 0]
  /\ pc' = "made"
  /\ UNCHANGED <<ret, clock, spinner, stream>>
  /\ AutomaticSpinnerKeeps

\* AutomaticSpinner.__enter__: subprocess.start()
AutomaticSpinnerEnter ==
  /\ pc = "made"
  /\ subprocess.pc = "initial"
  /\ subprocess' = [subprocess EXCEPT !.pc = "begin"]
  /\ pc' = "inside"
  /\ UNCHANGED <<ret, clock, spinner, stream, shutdown_event>>
  /\ AutomaticSpinnerKeeps

\* AutomaticSpinner.__exit__: shutdown_event.set()
AutomaticSpinnerSet ==
  /\ pc = "inside"
  /\ shutdown_event' = TRUE
  /\ pc' = "joining"
  /\ UNCHANGED <<ret, clock, spinner, stream, subprocess>>
  /\ AutomaticSpinnerKeeps

\* AutomaticSpinner.__exit__: subprocess.join(), and the return
AutomaticSpinnerJoin ==
  /\ pc = "joining"
  /\ subprocess_join(subprocess)
  /\ pc' = "returned"
  /\ UNCHANGED <<ret, clock, spinner, stream, shutdown_event, subprocess>>
  /\ AutomaticSpinnerKeeps

\* timer = Timer() if show_time else None; with Spinner(label=label, timer=timer)
TargetBegin ==
  /\ subprocess.pc = "begin"
  /\ Leaves(Spinner__init__(call.arg.label, 0, call.arg.kind, NotGiven,
                            IF call.arg.show_time
                            THEN Timer__init__(NoStartTime, FALSE, clock) ELSE NoTimer,
                            TRUE))
  /\ subprocess' = [subprocess EXCEPT !.pc = "check"]
  /\ UNCHANGED <<pc, clock, shutdown_event>>
  /\ AutomaticSpinnerKeeps

\* while not shutdown_event.is_set()
TargetCheck ==
  /\ subprocess.pc = "check"
  /\ IF is_set(shutdown_event)
     THEN subprocess' = [subprocess EXCEPT !.pc = "leave"]
     ELSE /\ subprocess.loops < MaxLoops
          /\ subprocess' = [pc |-> "step", loops |-> subprocess.loops + 1]
  /\ UNCHANGED <<pc, ret, clock, spinner, stream, shutdown_event>>
  /\ AutomaticSpinnerKeeps

\* spinner.step(), which an interactive spinner without a label ends by an
\* exception
TargetStep ==
  /\ subprocess.pc = "step"
  /\ Leaves(step(spinner, 0, <<>>, clock))
  /\ subprocess' = [subprocess EXCEPT !.pc = IF ret' = NoLabel THEN "leave" ELSE "sleep"]
  /\ UNCHANGED <<pc, clock, shutdown_event>>
  /\ AutomaticSpinnerKeeps

\* spinner.sleep()
TargetSleep ==
  /\ subprocess.pc = "sleep"
  /\ clock' = clock + minimum_spinner_interval
  /\ subprocess' = [subprocess EXCEPT !.pc = "check"]
  /\ UNCHANGED <<pc, ret, spinner, stream, shutdown_event>>
  /\ AutomaticSpinnerKeeps

\* KeyboardInterrupt inside the block of `with Spinner(...)`
TargetInterrupt ==
  /\ subprocess.pc \in {"check", "step", "sleep"}
  /\ subprocess' = [subprocess EXCEPT !.pc = "leave"]
  /\ UNCHANGED <<pc, ret, clock, spinner, stream, shutdown_event>>
  /\ AutomaticSpinnerKeeps

\* the block of `with Spinner(...)` ends: Spinner.__exit__ calls clear(), and
\* automatic_spinner_target ends
TargetLeave ==
  /\ subprocess.pc = "leave"
  /\ stream' = stream \o clear(spinner)
  /\ subprocess' = [subprocess EXCEPT !.pc = "terminated"]
  /\ UNCHANGED <<pc, ret, clock, spinner, shutdown_event>>
  /\ AutomaticSpinnerKeeps

AutomaticSpinnerNext ==
  \/ AutomaticSpinnerMake
  \/ AutomaticSpinnerEnter
  \/ AutomaticSpinnerSet
  \/ AutomaticSpinnerJoin
  \/ TargetBegin
  \/ TargetCheck
  \/ TargetStep
  \/ TargetSleep
  \/ TargetInterrupt
  \/ TargetLeave

AutomaticSpinnerSpec == AutomaticSpinnerInit /\ [][AutomaticSpinnerNext]_vars

\* The subprocess, once started, is scheduled, and so is the main process
\* inside __exit__.
AutomaticSpinnerFairSpec ==
  /\ AutomaticSpinnerSpec
  /\ WF_vars(AutomaticSpinnerJoin)
  /\ WF_vars(TargetBegin)
  /\ WF_vars(TargetCheck)
  /\ WF_vars(TargetStep)
  /\ WF_vars(TargetSleep)
  /\ WF_vars(TargetLeave)

(***************************************************************************)
(* prompt_for_choice.  The default is None (NoDefault) or a string.  pc is *)
(* "start", then "prompting" at the head of the loop, then "returned".     *)
(* log is the list of what interactive_prompt() returned, and stream what  *)
(* was printed.                                                            *)
(***************************************************************************)
NoDefault == [given |-> FALSE, value |-> <<>>]

Default(value) == [given |-> TRUE, value |-> value]

\* sub in text
contains(text, sub) ==
  \E i \in 0..(Len(text) - Len(sub)) : SubSeq(text, i + 1, i + Len(sub)) = sub

\* u" %i. %s" % (i, choice), and " (default choice)" for the default
choice_line(i, choice, default) ==
  <<" ">> \o DigitText(NatDigits(i)) \o <<".", " ">> \o choice
    \o (IF default.given /\ choice = default.value
        THEN <<" ", "(", "d", "e", "f", "a", "u", "l", "t", " ", "c", "h",
               "o", "i", "c", "e", ")">>
        ELSE <<>>)

more_than_one_choice(input, matches) ==
  <<"E", "r", "r", "o", "r", ":", " ", "T", "h", "e", " ", "s", "t", "r",
    "i", "n", "g", " ", "'">> \o input
    \o <<"'", " ", "m", "a", "t", "c", "h", "e", "s", " ", "m", "o", "r",
         "e", " ", "t", "h", "a", "n", " ", "o", "n", "e", " ", "c", "h",
         "o", "i", "c", "e", " ", "(">>
    \o concatenate(matches) \o <<")", ".">>

not_a_valid_choice(input) ==
  <<"E", "r", "r", "o", "r", ":", " ", "T", "h", "e", " ", "n", "u", "m",
    "b", "e", "r", " ">> \o DigitText(NatDigits(digits_value(input)))
    \o <<" ", "i", "s", " ", "n", "o", "t", " ", "a", " ", "v", "a", "l",
         "i", "d", " ", "c", "h", "o", "i", "c", "e", ".">>

no_match(input) ==
  <<"E", "r", "r", "o", "r", ":", " ", "T", "h", "e", " ", "s", "t", "r",
    "i", "n", "g", " ", "'">> \o input
    \o <<"'", " ", "d", "o", "e", "s", "n", "'", "t", " ", "m", "a", "t",
         "c", "h", " ", "a", "n", "y", " ", "c", "h", "o", "i", "c", "e",
         "s", ".">>

\* The choices that the loop over the choices gathers: those of which the
\* input is a part, when it is equal to none.
substring_matches(choices, input) ==
  SelectSeq(choices, LAMBDA choice : contains(lower(choice), lower(input)))

\* The variant that takes the first of the choices gathered.
single_match_first(matches) == Len(matches) >= 1

\* len(matches) == 1
single_match(matches) == Len(matches) = 1

\* One turn of the loop, for what interactive_prompt() returned: whether
\* prompt_for_choice returns, what it returns, and what it prints.
prompt_for_choice_loop(choices, default, raw) ==
  LET input == strip(raw)
      index == digits_value(input) - 1
      equal == {i \in 1..Len(choices) : lower(input) = lower(choices[i])}
      matches == substring_matches(choices, input)
  IN  IF input = <<>>
      THEN IF default.given
           THEN [returns |-> TRUE, value |-> default.value, printed |-> <<>>]
           ELSE [returns |-> FALSE, value |-> <<>>, printed |-> <<>>]
      ELSE IF isdigit(input) /\ 0 <= index /\ index < Len(choices)
      THEN [returns |-> TRUE, value |-> choices[index + 1], printed |-> <<>>]
      ELSE IF equal # {}
      THEN [returns |-> TRUE, value |-> choices[Least(equal)], printed |-> <<>>]
      ELSE IF single_match(matches)
      THEN [returns |-> TRUE, value |-> matches[1], printed |-> <<>>]
      ELSE [returns |-> FALSE, value |-> <<>>,
            printed |-> IF matches # <<>> THEN <<more_than_one_choice(input, matches)>>
                        ELSE IF isdigit(input) THEN <<not_a_valid_choice(input)>>
                        ELSE <<no_match(input)>>]

\* The choices of test_prompt_for_choice, and choices that are digits, that
\* differ in case, and that are part of one another.
PromptChoices ==
  { << <<"f", "o", "o">>, <<"b", "a", "r">> >>,
    << <<"f", "o", "o">>, <<"b", "a", "r">>, <<"b", "a", "z">> >>,
    << <<"f", "o", "o">>, <<"b", "a", "r">>, <<"b", "a", "z">>, <<"q", "u", "x">> >>,
    << <<"2">>, <<"F", "o", "o">>, <<"f", "o", "o", "5">> >>,
    << <<"b", "a", "r">> >> }

PromptCalls ==
  { Call("prompt_for_choice", [choices |-> choices, default |-> default], FALSE) :
      choices \in PromptChoices,
      default \in {NoDefault, Default(<<"b", "a", "r">>), Default(<<"F", "o", "o">>)} }

\* What the user enters.
PromptInputs ==
  { <<>>, <<" ">>, <<"f", "o", "o">>, <<"F", "O", "O">>, <<"f">>, <<"a">>, <<"q">>,
    <<"z">>, <<"2">>, <<"4", "2">>, <<" ", "2", " ">>, <<"0">>, <<"5">>, <<"B", "A">>,
    <<"o", "o">> }

PromptInit ==
  /\ disk_size_units = disk_size_units_initial
  /\ length_size_units = length_size_units_initial
  /\ time_units = time_units_initial
  /\ call \in PromptCalls
  /\ pc = "start"
  /\ ret = PyNone
  /\ NoObjects

PromptKeeps ==
  UNCHANGED <<disk_size_units, length_size_units, time_units, call, clock, timer,
              spinner, shutdown_event, subprocess>>

\* the choices are printed
PromptStart ==
  /\ pc = "start"
  /\ call.op = "prompt_for_choice"
  /\ stream' = stream \o [i \in 1..Len(call.arg.choices) |->
                            choice_line(i, call.arg.choices[i], call.arg.default)]
  /\ pc' = "prompting"
  /\ UNCHANGED <<ret, log>>
  /\ PromptKeeps

\* What a turn of the loop leaves.
Answered(turn) ==
  /\ stream' = stream \o turn.printed
  /\ pc' = IF turn.returns THEN "returned" ELSE "prompting"
  /\ ret' = IF turn.returns THEN PyStr(turn.value) ELSE ret

\* one turn of the loop: the user enters something
PromptRead ==
  /\ pc = "prompting"
  /\ Len(log) < MaxPrompts
  /\ \E raw \in PromptInputs :
       /\ log' = Append(log, [op |-> "input", at |-> clock, text |-> raw])
       /\ Answered(prompt_for_choice_loop(call.arg.choices, call.arg.default, raw))
  /\ PromptKeeps

PromptNext ==
  \/ PromptStart
  \/ PromptRead

PromptSpec == PromptInit /\ [][PromptNext]_vars

(***************************************************************************)
(* What the properties are stated with.                                    *)
(***************************************************************************)
ParseOps == {"parse_size", "parse_length", "parse_timespan"}

ParseOf(op, text) ==
  IF op = "parse_size" THEN parse_size(text)
  ELSE IF op = "parse_length" THEN parse_length(text)
  ELSE parse_timespan(text)

\* The table a parser reads: the match key and the divider of each entry.
MatchKeys(op) ==
  IF op = "parse_size"
  THEN [i \in 1..Len(disk_size_units) |-> disk_size_units[i].prefix]
  ELSE IF op = "parse_length"
  THEN [i \in 1..Len(length_size_units) |-> length_size_units[i].prefix]
  ELSE [i \in 1..Len(time_units) |-> <<time_units[i].singular[1]>>]

Dividers(op) ==
  IF op = "parse_size"
  THEN [i \in 1..Len(disk_size_units) |-> disk_size_units[i].divider]
  ELSE IF op = "parse_length"
  THEN [i \in 1..Len(length_size_units) |-> length_size_units[i].divider]
  ELSE [i \in 1..Len(time_units) |-> time_units[i].divider]

\* The first entry, in table order, whose key is a prefix of u lower-cased;
\* 0 when there is none.
FirstMatch(op, u) ==
  LET matching == {i \in 1..Len(MatchKeys(op)) : startswith(lower(u), MatchKeys(op)[i])}
  IN  IF matching = {} THEN 0 ELSE Least(matching)

IsNumberThenWord(tokens) ==
  Len(tokens) = 2 /\ IsNumber(tokens[1]) /\ IsString(tokens[2])

IsOneNumber(tokens) == Len(tokens) = 1 /\ IsNumber(tokens[1])

\* a + b of two numbers that are no quotients
NumAdd(a, b) ==
  PyFloat(BigAdd[a.n \o Zeros(Max(a.s, b.s) - a.s), b.n \o Zeros(Max(a.s, b.s) - b.s)],
          Max(a.s, b.s))

\* |a - b| <= t
Within(a, b, t) == NumCmp(a, NumAdd(b, t)) <= 0 /\ NumCmp(b, NumAdd(a, t)) <= 0

(***************************************************************************)
(* C1.  As the claim has it: a number n followed by a word u that a table  *)
(* entry matches parses to n times the divider of the first such entry, in *)
(* all three parsers, whatever the letter case of u.                       *)
(* parse_size("1.5 b") is 1, so this does not hold of parse_size.          *)
(***************************************************************************)
C1_ProductReturned ==
  pc = "done" /\ call.op \in ParseOps =>
    LET tokens == tokenize(call.arg)
    IN  IsNumberThenWord(tokens) /\ FirstMatch(call.op, tokens[2].t) # 0 =>
          /\ IsNumber(ret)
          /\ NumEq(ret, NumMul(tokens[1],
                               Dividers(call.op)[FirstMatch(call.op, tokens[2].t)]))
          /\ ParseOf(call.op, upper(call.arg)) = ret
          /\ ParseOf(call.op, lower(call.arg)) = ret

(***************************************************************************)
(* C1, amended: a number n followed by a word u that a table entry matches *)
(* parses to n times the divider of the first such entry, in table order,  *)
(* in parse_length and parse_timespan, and to the whole part of that       *)
(* product, an int, in parse_size; the result is the same for u in upper   *)
(* and in lower case.                                                      *)
(***************************************************************************)
C1_ProductOrWholePart ==
  pc = "done" /\ call.op \in ParseOps =>
    LET tokens == tokenize(call.arg)
    IN  IsNumberThenWord(tokens) /\ FirstMatch(call.op, tokens[2].t) # 0 =>
          LET product == NumMul(tokens[1],
                                Dividers(call.op)[FirstMatch(call.op, tokens[2].t)])
          IN  /\ IsNumber(ret)
              /\ IF call.op = "parse_size"
                 THEN /\ ret.k = "int"
                      /\ NumCmp(ret, product) <= 0
                      /\ NumCmp(product, NumAdd(ret, PyInt(<<1>>))) < 0
                 ELSE NumEq(ret, product)
              /\ ParseOf(call.op, upper(call.arg)) = ret
              /\ ParseOf(call.op, lower(call.arg)) = ret

\* parse_size("1.5 KB") has returned 1536 and parse_length("1.5 Mm"), which
\* both "mm" and "m" match, 0.0015.
C1_Witness ==
  /\ pc = "done"
  /\ \/ /\ call.op = "parse_size"
        /\ call.arg = <<"1", ".", "5", " ", "K", "B">>
        /\ ret = PyInt(<<1, 5, 3, 6>>)
     \/ /\ call.op = "parse_length"
        /\ call.arg = <<"1", ".", "5", " ", "M", "m">>
        /\ ret = PyFloat(<<1, 5>>, 4)

(***************************************************************************)
(* C2.  An input that is one numeric token parses to the value of that     *)
(* token, in all three parsers.  parse_length("1.5") is 1: its one-token   *)
(* path returns int(tokens[0]).                                            *)
(***************************************************************************)
C2_SingleNumberUnchanged ==
  pc = "done" /\ call.op \in ParseOps =>
    LET tokens == tokenize(call.arg)
    IN  IsOneNumber(tokens) => IsNumber(ret) /\ NumEq(ret, tokens[1])

(***************************************************************************)
(* C3.  An input whose tokens are neither one number nor a number and a    *)
(* word that a table entry matches makes parse_size raise InvalidSize,     *)
(* parse_length InvalidLength and parse_timespan InvalidTimespan, and the  *)
(* exception carries the input and the tokens of tokenize.                 *)
(***************************************************************************)
InvalidKind(op) ==
  IF op = "parse_size" THEN "InvalidSize"
  ELSE IF op = "parse_length" THEN "InvalidLength"
  ELSE "InvalidTimespan"

IsDigits(text) ==
  text # <<>> /\ \A i \in 1..Len(text) : text[i] \in {DigitChars[j] : j \in 1..10}

IsNumberLiteral(text) ==
  \/ IsDigits(text)
  \/ \E p \in 2..(Len(text) - 1) :
       /\ text[p] = "."
       /\ IsDigits(SubSeq(text, 1, p - 1))
       /\ IsDigits(SubSeq(text, p + 1, Len(text)))

IsUnitWord(text) ==
  /\ text # <<>>
  /\ \A i \in 1..Len(text) :
       text[i] # " " /\ text[i] \notin {DigitChars[j] : j \in 1..10}

C4_AdjacentAsSeparated ==
  pc = "done" /\ call.op = "tokenize" =>
    \A p \in 1..(Len(call.arg) - 1) :
      LET d == SubSeq(call.arg, 1, p)
          w == SubSeq(call.arg, p + 1, Len(call.arg))
      IN  IsNumberLiteral(d) /\ IsUnitWord(w) =>
            ret = tokenize(d \o <<" ">> \o w)

\* tokenize("1.5aB") has returned [1.5, 'aB'].
C4_Witness ==
  /\ pc = "done"
  /\ call.op = "tokenize"
  /\ call.arg = <<"1", ".", "5", "a", "B">>
  /\ ret = <<PyFloat(<<1, 5>>, 1), PyStr(<<"a", "B">>)>>

(***************************************************************************)
(* C5.  tokenize returns, in the order of the input: for each maximal run  *)
(* of digits with its '.digits' fraction if one follows, a float when it   *)
(* has the fraction and an int when not; for each fragment between them, a *)
(* str without the whitespace around it, and nothing when that leaves      *)
(* nothing.  tokenize('') is empty.                                        *)
(***************************************************************************)
\* The last index of the digits that start at index i.
LastDigit(text, i) ==
  CHOOSE e \in i..Len(text) :
    /\ \A m \in i..e : IsDigits(<<text[m]>>)
    /\ e < Len(text) => ~IsDigits(<<text[e + 1]>>)

RECURSIVE Trimmed(_)
Trimmed(text) ==
  IF text = <<>> THEN text
  ELSE IF Head(text) = " " THEN Trimmed(Tail(text))
  ELSE IF text[Len(text)] = " " THEN Trimmed(SubSeq(text, 1, Len(text) - 1))
  ELSE text

WordToken(text) == IF Trimmed(text) = <<>> THEN <<>> ELSE <<PyStr(Trimmed(text))>>

\* The tokens of text from index from on, i being the index that is read.
RECURSIVE ExpectedTokens(_, _, _)
ExpectedTokens(text, from, i) ==
  IF i > Len(text) THEN WordToken(SubSeq(text, from, Len(text)))
  ELSE IF ~IsDigits(<<text[i]>>) THEN ExpectedTokens(text, from, i + 1)
  ELSE LET e == LastDigit(text, i)
           fraction == /\ e + 2 <= Len(text)
                       /\ text[e + 1] = "."
                       /\ IsDigits(<<text[e + 2]>>)
           f == IF fraction THEN LastDigit(text, e + 2) ELSE e
           number ==
             IF fraction
             THEN PyFloat(TextDigits(SubSeq(text, i, e) \o SubSeq(text, e + 2, f)),
                          f - e - 1)
             ELSE PyInt(TextDigits(SubSeq(text, i, e)))
       IN  WordToken(SubSeq(text, from, i - 1)) \o <<number>>
             \o ExpectedTokens(text, f + 1, f + 1)

MagnitudeOps == {"format_size", "format_length"}

FormatUnits(op) == IF op = "format_size" THEN disk_size_units ELSE length_size_units

BaseUnit(op) ==
  IF op = "format_size"
  THEN [divider |-> PyInt(<<1>>), singular |-> <<"b", "y", "t", "e">>,
        plural |-> <<"b", "y", "t", "e", "s">>]
  ELSE [divider |-> PyInt(<<1>>), singular |-> <<"m", "e", "t", "r", "e">>,
        plural |-> <<"m", "e", "t", "r", "e", "s">>]

\* The entries whose divider is at most n.
Reached(units, n) == {i \in 1..Len(units) : NumCmp(n, units[i].divider) >= 0}

\* The unit with the largest divider that is at most n; the base unit when n is
\* below every divider.
LargestUnit(op, n) ==
  LET units == FormatUnits(op)
      reached == Reached(units, n)
      i == CHOOSE i \in reached :
             \A j \in reached : NumCmp(units[j].divider, units[i].divider) <= 0
  IN  IF reached = {} THEN BaseUnit(op)
      ELSE [divider |-> units[i].divider, singular |-> units[i].singular,
            plural |-> units[i].plural]

\* The number and the label of a text "number label".
SpaceAt(text) == Least({i \in 1..Len(text) : text[i] = " "})

ShownNumber(text) == SubSeq(text, 1, SpaceAt(text) - 1)

ShownLabel(text) == SubSeq(text, SpaceAt(text) + 1, Len(text))

\* The whole part of the number that a text shows is 1; a text with an
\* exponent, which str() gives with a whole part of one digit, shows a number
\* below 1 when the exponent is negative, and 10 or more when it is not.
WholePartIsOne(text) ==
  /\ \A i \in 1..Len(text) : text[i] # "e"
  /\ LET dots == {i \in 1..Len(text) : text[i] = "."}
     IN  (IF dots = {} THEN text ELSE SubSeq(text, 1, Least(dots) - 1)) = <<"1">>

(***************************************************************************)
(* C6.  format_size and format_length name the unit with the largest       *)
(* divider that is at most n, and the base unit (byte, metre) when n is    *)
(* below every divider; format_size(1024**i) is '1 ' and the label of the  *)
(* unit of that divider.                                                   *)
(***************************************************************************)
C6_LargestUnitNamed ==
  pc = "done" /\ call.op \in MagnitudeOps =>
    /\ ShownLabel(ret) \in {LargestUnit(call.op, call.arg).singular,
                            LargestUnit(call.op, call.arg).plural}
    /\ call.op = "format_size" /\ ~call.keep_width =>
         \A i \in 1..Len(disk_size_units) :
           call.arg = disk_size_units[i].divider =>
             ret = <<"1", " ">> \o disk_size_units[i].singular

\* format_size(1024 ** 3) has returned '1 GB'.
C6_Witness ==
  /\ pc = "done"
  /\ call.op = "format_size"
  /\ call.arg = PyInt(<<1, 0, 7, 3, 7, 4, 1, 8, 2, 4>>)
  /\ ~call.keep_width
  /\ ret = <<"1", " ", "G", "B">>

(***************************************************************************)
(* C7.  On every path of format_size and format_length the number shown is *)
(* the magnitude divided by the divider of the unit, with two decimals,    *)
(* less the zeros that end it and a point left at the end if and only if   *)
(* keep_width is false.  format_size(0, keep_width=True) is '0 bytes': the *)
(* path of a magnitude below every divider does not call round_number.     *)
(***************************************************************************)
C7_TwoDecimalsOnEveryPath ==
  pc = "done" /\ call.op \in MagnitudeOps =>
    LET quotient == NumDiv(ToFloat(call.arg), LargestUnit(call.op, call.arg).divider)
    IN  ShownNumber(ret) =
          IF call.keep_width THEN format_2f(quotient)
          ELSE sub_trailing_dot[sub_trailing_zeros[format_2f(quotient)]]

(***************************************************************************)
(* C8.  format_size, format_length and format_timespan below a minute show *)
(* the singular label exactly when the whole part of the number shown      *)
(* is 1.                                                                   *)
(***************************************************************************)
SecondUnit ==
  [divider |-> PyInt(<<1>>), singular |-> <<"s", "e", "c", "o", "n", "d">>,
   plural |-> <<"s", "e", "c", "o", "n", "d", "s">>]

C8_SingularForWholePartOne ==
  /\ pc = "done" /\ call.op \in MagnitudeOps =>
       ShownLabel(ret) =
         IF WholePartIsOne(ShownNumber(ret))
         THEN LargestUnit(call.op, call.arg).singular
         ELSE LargestUnit(call.op, call.arg).plural
  /\ pc = "done" /\ call.op = "format_timespan"
       /\ NumCmp(call.arg, PyInt(<<6, 0>>)) < 0 =>
       ShownLabel(ret) =
         IF WholePartIsOne(ShownNumber(ret))
         THEN SecondUnit.singular ELSE SecondUnit.plural

\* format_length(1.5) has returned '1.5 metre'.
C8_Witness ==
  /\ pc = "done"
  /\ call.op = "format_length"
  /\ call.arg = PyFloat(<<1, 5>>, 1)
  /\ ~call.keep_width
  /\ ret = <<"1", ".", "5", " ", "m", "e", "t", "r", "e">>

(***************************************************************************)
(* C9.  A magnitude of 0 is shown in the base unit, with the plural label  *)
(* and no decimals: '0 bytes', '0 metres', '0 seconds'.                    *)
(* format_length(0.0) is '0.0 metres', by the path of C7.                  *)
(***************************************************************************)
C9_ZeroWithoutDecimals ==
  pc = "done" /\ call.op \in MagnitudeOps \cup {"format_timespan"}
    /\ BigIsZero(call.arg.n) =>
    ret = <<"0", " ">> \o
            (IF call.op = "format_timespan" THEN SecondUnit.plural
             ELSE BaseUnit(call.op).plural)

(***************************************************************************)
(* C10.  As the claim has it: parse_size(format_size(x)) is within 0.005   *)
(* times the divider of the unit of x, and is x when x is k times a        *)
(* divider for k in 1..1023; parse_length(format_length(x)) is within      *)
(* 0.005 times the divider for x at or above the smallest divider.         *)
(* parse_size(format_size(1152)) is parse_size('1.12 KB'), 1146.           *)
(***************************************************************************)
Tolerance(op, x) ==
  NumMul(PyFloat(<<5>>, 3), LargestUnit(op, x).divider)

IsMultipleOfDivider(x) ==
  \E i \in 1..Len(disk_size_units) :
    LET d == BigDivMod[x.n, disk_size_units[i].divider.n]
    IN  /\ BigIsZero(d[2])
        /\ BigCmp[d[1], <<1>>] >= 0
        /\ BigCmp[d[1], <<1, 0, 2, 3>>] <= 0

C10_RoundTripWithinRounding ==
  /\ pc = "done" /\ call.op = "format_size" =>
       /\ IsNumber(parse_size(ret))
       /\ Within(call.arg, parse_size(ret), Tolerance(call.op, call.arg))
       /\ IsMultipleOfDivider(call.arg) => NumEq(parse_size(ret), call.arg)
  /\ pc = "done" /\ call.op = "format_length"
       /\ Reached(length_size_units, call.arg) # {} =>
       /\ IsNumber(parse_length(ret))
       /\ Within(call.arg, parse_length(ret), Tolerance(call.op, call.arg))

(***************************************************************************)
(* C10, amended: parse_size(format_size(x)) is within 0.005 times the      *)
(* divider of the unit of x, plus 1 for the fraction of a byte that        *)
(* parse_size drops, and is x when x is k times a divider for k in         *)
(* 1..1023; parse_length(format_length(x)) is within 0.005 times the       *)
(* divider for x at or above the smallest divider.                         *)
(***************************************************************************)
C10_RoundTripWithinRoundingAndOne ==
  /\ pc = "done" /\ call.op = "format_size" =>
       /\ IsNumber(parse_size(ret))
       /\ Within(call.arg, parse_size(ret),
                 NumAdd(Tolerance(call.op, call.arg), PyInt(<<1>>)))
       /\ IsMultipleOfDivider(call.arg) => NumEq(parse_size(ret), call.arg)
  /\ pc = "done" /\ call.op = "format_length"
       /\ Reached(length_size_units, call.arg) # {} =>
       /\ IsNumber(parse_length(ret))
       /\ Within(call.arg, parse_length(ret), Tolerance(call.op, call.arg))

\* format_size(1152) has returned '1.12 KB', which parse_size reads as 1146.
C10_Witness ==
  /\ pc = "done"
  /\ call.op = "format_size"
  /\ call.arg = PyInt(<<1, 1, 5, 2>>)
  /\ ret = <<"1", ".", "1", "2", " ", "K", "B">>
  /\ parse_size(ret) = PyInt(<<1, 1, 4, 6>>)

(***************************************************************************)
(* C11.  pluralize(count, singular, plural) is str(count), a space and a   *)
(* word: the singular when floor(count) is 1, that is when 1 <= count < 2, *)
(* and otherwise the plural, which is the singular and "s" when none is    *)
(* given.  pluralize(1, 'word') is '1 word', pluralize(2, 'word') is       *)
(* '2 words', pluralize(1, 'box', 'boxes') is '1 box' and                  *)
(* pluralize(2, 'box', 'boxes') is '2 boxes'.                              *)
(***************************************************************************)
FloorIsOne(count) ==
  /\ NumCmp(float_of(count), PyInt(<<1>>)) >= 0
  /\ NumCmp(float_of(count), PyInt(<<2>>)) < 0

C11_SingularForFloorOne ==
  pc = "done" /\ call.op = "pluralize" =>
    /\ ShownNumber(ret) = format_s(call.arg.count)
    /\ ShownLabel(ret) =
         IF FloorIsOne(call.arg.count) THEN call.arg.singular
         ELSE IF call.arg.plural = <<>> THEN call.arg.singular \o <<"s">>
         ELSE call.arg.plural
    /\ call.arg = [count |-> PyInt(<<1>>), singular |-> <<"w", "o", "r", "d">>,
                   plural |-> <<>>]
         => ret = <<"1", " ", "w", "o", "r", "d">>
    /\ call.arg = [count |-> PyInt(<<2>>), singular |-> <<"w", "o", "r", "d">>,
                   plural |-> <<>>]
         => ret = <<"2", " ", "w", "o", "r", "d", "s">>
    /\ call.arg = [count |-> PyInt(<<1>>), singular |-> <<"b", "o", "x">>,
                   plural |-> <<"b", "o", "x", "e", "s">>]
         => ret = <<"1", " ", "b", "o", "x">>
    /\ call.arg = [count |-> PyInt(<<2>>), singular |-> <<"b", "o", "x">>,
                   plural |-> <<"b", "o", "x", "e", "s">>]
         => ret = <<"2", " ", "b", "o", "x", "e", "s">>

\* pluralize(2, 'box', 'boxes') has returned '2 boxes'.
C11_Witness ==
  /\ pc = "done"
  /\ call.op = "pluralize"
  /\ call.arg.count = PyInt(<<2>>)
  /\ call.arg.plural = <<"b", "o", "x", "e", "s">>
  /\ ret = <<"2", " ", "b", "o", "x", "e", "s">>

(***************************************************************************)
(* C12.  From a minute on, format_timespan counts years (of 52 weeks),     *)
(* weeks, days, hours, minutes and seconds, each count the whole quotient  *)
(* of what the larger units leave, and lists the units of a count that is  *)
(* not 0, largest first, the three largest of them at most; what the       *)
(* smaller units hold is dropped.  Below a minute it shows the rounded     *)
(* number of seconds alone.                                                *)
(***************************************************************************)
\* What the units above the i-th leave of n: every divider divides the next.
LeftBy(n, i) ==
  IF i = Len(time_units) THEN n ELSE NumMod(n, time_units[i + 1].divider)

CountOf(n, i) == NumIntDiv(LeftBy(n, i), time_units[i].divider)

Counted(n) == {i \in 1..Len(time_units) : ~BigIsZero(CountOf(n, i).n)}

Greatest(S) == CHOOSE i \in S : \A j \in S : i >= j

\* The k-th largest of the units counted.
RECURSIVE KthCounted(_, _)
KthCounted(S, k) ==
  IF k = 1 THEN Greatest(S) ELSE KthCounted(S \ {Greatest(S)}, k - 1)

Component(n, i) ==
  pluralize(CountOf(n, i), time_units[i].singular, time_units[i].plural)

Components(n) ==
  [k \in 1..(IF Cardinality(Counted(n)) < 3 THEN Cardinality(Counted(n)) ELSE 3) |->
     Component(n, KthCounted(Counted(n), k))]

C12_GreedyThreeLargest ==
  pc = "done" /\ call.op = "format_timespan" =>
    IF NumCmp(call.arg, PyInt(<<6, 0>>)) >= 0
    THEN ret = concatenate(Components(call.arg))
    ELSE /\ ret = round_number(call.arg, FALSE) \o <<" ">> \o ShownLabel(ret)
         /\ ShownLabel(ret) \in {SecondUnit.singular, SecondUnit.plural}

\* format_timespan(52 weeks + 2 hours + 1 minute + 1 second) has returned
\* '1 year, 2 hours and 1 minute': the second is dropped.
C12_Witness ==
  /\ pc = "done"
  /\ call.op = "format_timespan"
  /\ call.arg = PyInt(<<3, 1, 4, 5, 6, 8, 6, 1>>)
  /\ Cardinality(Counted(call.arg)) = 4
  /\ ret = <<"1", " ", "y", "e", "a", "r", ",", " ", "2", " ", "h", "o", "u", "r", "s",
             " ", "a", "n", "d", " ", "1", " ", "m", "i", "n", "u", "t", "e">>

(***************************************************************************)
(* C13.  concatenate(items) is '' for no item, the item for one, and for   *)
(* more the items but the last with ', ' between them, then ' and ' and    *)
(* the last item.  format_timespan joins what it lists in this way: one    *)
(* unit stands alone and two have ' and ' between them, without a comma.   *)
(***************************************************************************)
\* The list read from the left: 'a', 'a and b', 'a, ' and the list of the rest.
RECURSIVE Listed(_)
Listed(items) ==
  IF items = <<>> THEN <<>>
  ELSE IF Len(items) = 1 THEN items[1]
  ELSE IF Len(items) = 2 THEN items[1] \o <<" ", "a", "n", "d", " ">> \o items[2]
  ELSE items[1] \o <<",", " ">> \o Listed(Tail(items))

C13_CommasThenAnd ==
  /\ pc = "done" /\ call.op = "concatenate" => ret = Listed(call.arg.items)
  /\ pc = "done" /\ call.op = "format_timespan"
       /\ NumCmp(call.arg, PyInt(<<6, 0>>)) >= 0 =>
       /\ ret = Listed(Components(call.arg))
       /\ Cardinality(Counted(call.arg)) = 1 => ret = Components(call.arg)[1]
       /\ Cardinality(Counted(call.arg)) = 2 =>
            \A i \in 1..Len(ret) : ret[i] # ","

\* concatenate(['one', 'two', 'three']) has returned 'one, two and three'.
C13_Witness ==
  /\ pc = "done"
  /\ call.op = "concatenate"
  /\ call.arg.items = << <<"o", "n", "e">>, <<"t", "w", "o">>, <<"t", "h", "r", "e", "e">> >>
  /\ ret = <<"o", "n", "e", ",", " ", "t", "w", "o", " ", "a", "n", "d", " ",
             "t", "h", "r", "e", "e">>

(***************************************************************************)
(* C14.  In disk_size_units, length_size_units and time_units the dividers *)
(* increase strictly in table order, and no call of a formatter or a       *)
(* parser, after whatever calls, changes a table.                          *)
(***************************************************************************)
StrictlyIncreasing(units) ==
  \A i \in 1..(Len(units) - 1) : NumCmp(units[i].divider, units[i + 1].divider) < 0

C14_TablesIncreasingAndKept ==
  /\ [](/\ StrictlyIncreasing(disk_size_units)
        /\ StrictlyIncreasing(length_size_units)
        /\ StrictlyIncreasing(time_units))
  /\ [][UNCHANGED <<disk_size_units, length_size_units, time_units>>]_vars

\* format_size(1024) has returned '1 KB', for which it read disk_size_units from
\* its end, and the tables are as the module defines them.
C14_Witness ==
  /\ pc = "done"
  /\ call.op = "format_size"
  /\ ret = <<"1", " ", "K", "B">>
  /\ Len(disk_size_units) = 6 /\ Len(length_size_units) = 5 /\ Len(time_units) = 6
  /\ disk_size_units = disk_size_units_initial

(***************************************************************************)
(* C15.  coerce_boolean of a string, stripped and in lower case, is True   *)
(* for '1', 'yes', 'true' and 'on', False for '0', 'no', 'false' and       *)
(* 'off', and raises ValueError for every other string; of a value that is *)
(* no string it is bool(value).  coerce_boolean('') is False: the empty    *)
(* string is among the strings that the code takes for False.              *)
(***************************************************************************)
Truthy(value) ==
  IF value.k = "NoneType" THEN FALSE
  ELSE IF value.k = "bool" THEN value.n = <<1>>
  ELSE NumCmp(value, PyInt(<<0>>)) # 0

C15_OtherStringsRaise ==
  pc = "done" /\ call.op = "coerce_boolean" =>
    IF call.arg.k = "str"
    THEN LET word == lower(Trimmed(call.arg.t))
         IN  IF word \in { <<"1">>, <<"y", "e", "s">>, <<"t", "r", "u", "e">>, <<"o", "n">> }
             THEN ret = PyBool(TRUE)
             ELSE IF word \in { <<"0">>, <<"n", "o">>, <<"f", "a", "l", "s", "e">>,
                                <<"o", "f", "f">> }
             THEN ret = PyBool(FALSE)
             ELSE ret.k = "ValueError"
    ELSE ret = PyBool(Truthy(call.arg))

(***************************************************************************)
(* C16.  parse_date returns a value for the strings of the forms           *)
(* 'YYYY-MM-DD' and 'YYYY-MM-DD HH:MM:SS' and for no other: the year, the  *)
(* month, the day, the hour, the minute and the second as integers, the    *)
(* time being 0, 0, 0 when the string has none; for every other string it  *)
(* raises InvalidDate.  parse_date('2013') is (2013, 1, 1, 0, 0, 0).       *)
(***************************************************************************)
IsDigitsOfLength(text, n) == Len(text) = n /\ \A i \in 1..n : IsDigits(<<text[i]>>)

\* 'YYYY-MM-DD', from index i of text
IsDateAt(text, i) ==
  /\ Len(text) >= i + 9
  /\ IsDigitsOfLength(SubSeq(text, i, i + 3), 4)
  /\ text[i + 4] = "-"
  /\ IsDigitsOfLength(SubSeq(text, i + 5, i + 6), 2)
  /\ text[i + 7] = "-"
  /\ IsDigitsOfLength(SubSeq(text, i + 8, i + 9), 2)

\* 'HH:MM:SS', from index i of text
IsTimeAt(text, i) ==
  /\ Len(text) >= i + 7
  /\ IsDigitsOfLength(SubSeq(text, i, i + 1), 2)
  /\ text[i + 2] = ":"
  /\ IsDigitsOfLength(SubSeq(text, i + 3, i + 4), 2)
  /\ text[i + 5] = ":"
  /\ IsDigitsOfLength(SubSeq(text, i + 6, i + 7), 2)

IsDateOnly(text) == Len(text) = 10 /\ IsDateAt(text, 1)

IsDateAndTime(text) ==
  Len(text) = 19 /\ IsDateAt(text, 1) /\ text[11] = " " /\ IsTimeAt(text, 12)

NumberAt(text, i, n) == digits_value(SubSeq(text, i, i + n - 1))

C16_ValueExactlyForTheTwoFormats ==
  pc = "done" /\ call.op = "parse_date" =>
    IF IsDateOnly(call.arg)
    THEN ret = PyTuple(<<NumberAt(call.arg, 1, 4), NumberAt(call.arg, 6, 2),
                         NumberAt(call.arg, 9, 2), 0, 0, 0>>)
    ELSE IF IsDateAndTime(call.arg)
    THEN ret = PyTuple(<<NumberAt(call.arg, 1, 4), NumberAt(call.arg, 6, 2),
                         NumberAt(call.arg, 9, 2), NumberAt(call.arg, 12, 2),
                         NumberAt(call.arg, 15, 2), NumberAt(call.arg, 18, 2)>>)
    ELSE ret = InvalidDate(call.arg)

(***************************************************************************)
(* C17.  For an integer n, negative or not, format_number(n) is n in       *)
(* decimal with a comma between the groups of three digits counted from    *)
(* the right: without its commas it is n in decimal, and every comma has a *)
(* digit before it and a digit after it.  format_number(-123) is '-,123'.  *)
(***************************************************************************)
Decimal(number) ==
  (IF number.neg THEN <<"-">> ELSE <<>>) \o DigitText(number.abs.n)

WithoutCommas(text) == SelectSeq(text, LAMBDA c : c # ",")

C17_CommasBetweenGroupsOfThree ==
  pc = "done" /\ call.op = "format_number" /\ call.arg.number.abs.k = "int" =>
    /\ WithoutCommas(ret) = Decimal(call.arg.number)
    /\ \A i \in 1..Len(ret) :
         ret[i] = "," =>
           /\ 1 < i /\ i < Len(ret)
           /\ IsDigits(<<ret[i - 1]>>) /\ IsDigits(<<ret[i + 1]>>)
           /\ (Len(ret) + 1 - i) % 4 = 0
    /\ Cardinality({i \in 1..Len(ret) : ret[i] = ","})
         = (Len(call.arg.number.abs.n) - 1) \div 3

(***************************************************************************)
(* C18.  For a resumable Timer whose with-blocks follow one another,       *)
(* elapsed_time is the sum of (exit time - enter time) over the blocks     *)
(* that were left, plus (now - enter time) inside a block; it is 0 before  *)
(* the first block, and outside a block it stays as it is while the clock  *)
(* advances.                                                               *)
(***************************************************************************)
EntersAndExits == SelectSeq(log, LAMBDA made : made.op # "__init__")

\* The sum of (exit time - enter time) over the blocks that were left.
RECURSIVE BlocksTime(_)
BlocksTime(made) ==
  IF Len(made) < 2 THEN 0
  ELSE (made[2].at - made[1].at) + BlocksTime(SubSeq(made, 3, Len(made)))

ActiveTime ==
  IF Len(EntersAndExits) % 2 = 1
  THEN clock - EntersAndExits[Len(EntersAndExits)].at
  ELSE 0

C18_SumOfBlocks ==
  /\ [](timer.made /\ timer.resumable =>
          /\ elapsed_time(timer, clock) = BlocksTime(EntersAndExits) + ActiveTime
          /\ (EntersAndExits = <<>> => elapsed_time(timer, clock) = 0))
  /\ [][timer.made /\ timer.resumable /\ ElapsedTime =>
          ret' = Seconds(BlocksTime(EntersAndExits) + ActiveTime)]_vars
  /\ [][timer.made /\ timer.resumable /\ pc = "outside" /\ Tick =>
          elapsed_time(timer', clock') = elapsed_time(timer, clock)]_vars

\* A block of 0.1 second was left, 0.1 second later a second block was
\* entered, 0.2 second ago, and elapsed_time was read as 0.3 second.
C18_Witness ==
  /\ timer.made /\ timer.resumable
  /\ pc = "inside"
  /\ Len(EntersAndExits) = 3
  /\ BlocksTime(EntersAndExits) = 1
  /\ EntersAndExits[3].at = EntersAndExits[2].at + 1
  /\ ActiveTime = 2
  /\ ret = Seconds(3)

(***************************************************************************)
(* C19.  For a Timer that is not resumable, elapsed_time read at the time  *)
(* t is t - s, where s is the start_time given, 0 included, and the time   *)
(* at which the Timer was made when none is given.  Timer(start_time=0)    *)
(* counts from the time at which it was made.                              *)
(***************************************************************************)
C19_SinceStartTime ==
  timer.made /\ ~timer.resumable =>
    elapsed_time(timer, clock)
      = clock - (IF call.arg.start_time.given
                 THEN call.arg.start_time.value
                 ELSE log[1].at)

(***************************************************************************)
(* C20.  A Spinner whose interactive flag is False writes nothing to its   *)
(* stream: not when it is made, not in step(), not in clear(), not when    *)
(* its with-block is left; and step() leaves counter and last_update as    *)
(* they are.                                                               *)
(***************************************************************************)
C20_NotInteractiveWritesNothing ==
  /\ [](spinner.made /\ ~spinner.interactive => stream = <<>>)
  /\ [][spinner.made /\ ~spinner.interactive /\ SpinnerStep =>
          /\ spinner'.counter = spinner.counter
          /\ spinner'.last_update = spinner.last_update]_vars

\* A spinner made with interactive=False for a terminal has made a step, was
\* cleared, and its with-block was left 0.2 second later.
C20_Witness ==
  /\ spinner.made /\ ~spinner.interactive
  /\ call.arg.interactive = Given(FALSE) /\ call.arg.kind = "terminal"
  /\ call.arg.label # <<>> /\ call.arg.hide_cursor
  /\ pc = "outside"
  /\ Len(log) = 3
  /\ log[1].op = "step" /\ log[2].op = "clear" /\ log[3].op = "__exit__"
  /\ log[3].at >= log[1].at + minimum_spinner_interval
  /\ stream = <<>>
  /\ spinner.counter = 0 /\ spinner.last_update = 0

(***************************************************************************)
(* C21.  An interactive Spinner with hide_cursor true wrote the code that  *)
(* hides the cursor when it was made, and leaving its with-block writes    *)
(* the code that shows it, also when the block ends by the exception that  *)
(* step() raises for want of a label; with hide_cursor false neither code  *)
(* is written.                                                             *)
(***************************************************************************)
CursorCodes == {hide_cursor_code, show_cursor_code}

C21_CursorShownWhenLeft ==
  /\ [](spinner.made /\ spinner.interactive /\ spinner.hide_cursor =>
          Len(stream) >= 1 /\ stream[1] = hide_cursor_code)
  /\ [][SpinnerExit /\ spinner.interactive /\ spinner.hide_cursor =>
          \E j \in (Len(stream) + 1)..Len(stream') : stream'[j] = show_cursor_code]_vars
  /\ [](spinner.made /\ ~spinner.hide_cursor =>
          \A i \in 1..Len(stream) : stream[i] \notin CursorCodes)

\* An interactive spinner without a label hid the cursor, its step() raised
\* inside the with-block, and leaving the block showed the cursor.
C21_Witness ==
  /\ spinner.made /\ spinner.interactive /\ spinner.hide_cursor
  /\ pc = "outside"
  /\ ret = NoLabel
  /\ Len(log) = 2 /\ log[1].op = "step" /\ log[2].op = "__exit__"
  /\ stream = <<hide_cursor_code, show_cursor_code, erase_line_code>>

(***************************************************************************)
(* C22.  AutomaticSpinner.__exit__ sets the event and joins the            *)
(* subprocess; the subprocess sees the event at the test of its loop,      *)
(* leaves the block of its Spinner, which calls clear(), and terminates.   *)
(* So __exit__, once it has set the event, returns, in every interleaving  *)
(* of the two processes, and when it has returned the subprocess has       *)
(* terminated.                                                             *)
(***************************************************************************)
C22_ExitReturnsAfterSubprocess ==
  /\ [](pc \in {"joining", "returned"} => shutdown_event)
  /\ [](pc = "returned" => subprocess.pc = "terminated")
  /\ [](subprocess.pc = "terminated" /\ spinner.interactive =>
          Len(stream) >= 2 /\ stream[Len(stream) - 1] = show_cursor_code
                           /\ stream[Len(stream)] = erase_line_code)
  /\ [][subprocess.pc = "check" /\ shutdown_event /\ subprocess'.pc # "check" =>
          subprocess'.pc = "leave"]_vars
  /\ (pc = "joining" ~> pc = "returned")

\* __exit__ has returned: the subprocess had shown the spinner on a terminal
\* twice before it saw the event, cleared it, and has terminated.
C22_Witness ==
  /\ pc = "returned"
  /\ shutdown_event
  /\ subprocess = [pc |-> "terminated", loops |-> 2]
  /\ spinner.interactive /\ spinner.counter = 2
  /\ Len(stream) = 5
  /\ stream[5] = erase_line_code

(***************************************************************************)
(* prompt_for_choice: which inputs it returns at.                          *)
(***************************************************************************)
\* The positions of the choices that the text is equal to, and of those it
\* is a part of, both without regard to case.
EqualChoices(text) ==
  {i \in 1..Len(call.arg.choices) : lower(text) = lower(call.arg.choices[i])}

ContainingChoices(text) ==
  {i \in 1..Len(call.arg.choices) : contains(lower(call.arg.choices[i]), lower(text))}

NamesPosition(text) ==
  /\ text # <<>>
  /\ \A i \in 1..Len(text) : IsDigitChar(text[i])
  /\ digits_value(text) \in 1..Len(call.arg.choices)

\* The kinds (a) to (d) of an input, and what may be returned for each; the
\* empty input is of kind (a) or of none.
Selects(text) ==
  IF text = <<>>
  THEN IF call.arg.default.given THEN {call.arg.default.value} ELSE {}
  ELSE (IF NamesPosition(text) THEN {call.arg.choices[digits_value(text)]} ELSE {})
         \cup {call.arg.choices[i] : i \in EqualChoices(text)}
         \cup (IF Cardinality(ContainingChoices(text)) = 1
               THEN {call.arg.choices[i] : i \in ContainingChoices(text)}
               ELSE {})

\* The same for an input without the whitespace around it, the kinds tried
\* in the order (a) to (d).
SelectsStripped(raw) ==
  LET text == strip(raw)
  IN  IF text = <<>>
      THEN IF call.arg.default.given THEN {call.arg.default.value} ELSE {}
      ELSE IF NamesPosition(text) THEN {call.arg.choices[digits_value(text)]}
      ELSE IF EqualChoices(text) # {} THEN {call.arg.choices[Least(EqualChoices(text))]}
      ELSE IF Cardinality(ContainingChoices(text)) = 1
      THEN {call.arg.choices[i] : i \in ContainingChoices(text)}
      ELSE {}

Entered == [i \in 1..Len(log) |-> log[i].text]

====
